---------------------------- MODULE Spec2Model ----------------------------
(***************************************************************************)
(* TechCommerce DataOps: the alert engine (sistema_alertas.py, AlertSystem)*)
(* and the cleaning pipeline (correcao_automatica.py, DataCleaner).        *)
(*                                                                         *)
(* Numbers.  An alert's percentage is kept as the exact rational           *)
(* affected*100/total, a record [num, den] with den > 0: the code's float  *)
(* comparisons against 1, 3, 5 and 10 agree with the exact ones for every  *)
(* pair of counts within the bounds used here.  Where the float's own      *)
(* value shows (round(percentage, 2) in to_dict) the double is computed    *)
(* digit by digit.  Money is kept in integer cents; the comparison of a    *)
(* one-cent difference with 0.01 is computed on the doubles.               *)
(* Wall-clock timestamps (Alert.timestamp, escalated_at) are not modelled. *)
(***************************************************************************)
EXTENDS Integers, Sequences, FiniteSets, TLC

VARIABLES
    \* ---- AlertSystem ----
    alerts,            \* self.alerts: the engine's alert list
    escalations_file,  \* lines appended to data/quality/escalations.json
    escalated,         \* the alerts escalate_alert was called on, as positions of self.alerts
    ret,               \* the last call on the engine: operation, arguments, result
    \* ---- determine_severity applied to a pair of percentages ----
    sev_args,          \* the two percentages handed to determine_severity
    sev_rets,          \* what determine_severity returned for them (<<>> before the calls)
    \* ---- DataCleaner.clean_all ----
    clientes_df,       \* the caller's four raw tables (sequences of rows)
    produtos_df,
    vendas_df,
    logistica_df,
    clientes_clean,    \* the tables clean_all has produced so far (<<>> until produced)
    produtos_clean,
    vendas_clean,
    logistica_clean,
    corrections_log,   \* self.corrections_log
    pc,                \* where clean_all stands: the cleaning it runs next, or "done"
    clock,             \* datetime.now(), as a day number
    runs               \* the clean_all calls that returned before this one: their
                       \* tables, what they returned, the log and the clock they read

alertVars == <<alerts, escalations_file, escalated, ret>>
sevVars == <<sev_args, sev_rets>>
rawVars == <<clientes_df, produtos_df, vendas_df, logistica_df>>
cleanVars == <<clientes_df, produtos_df, vendas_df, logistica_df,
               clientes_clean, produtos_clean, vendas_clean, logistica_clean,
               corrections_log, pc, clock, runs>>
vars == <<alerts, escalations_file, escalated, ret, sev_args, sev_rets,
          clientes_df, produtos_df, vendas_df, logistica_df,
          clientes_clean, produtos_clean, vendas_clean, logistica_clean,
          corrections_log, pc, clock, runs>>

-----------------------------------------------------------------------------
(* Bounds of the model *)

MaxAlerts == 2
MaxEscalations == 2
MaxDen == 4
MaxPct == 11
MaxRows == 2
MaxId == 2
MaxProcessEscalations == 3
MaxRuns == 2
MaxClock == 7
MaxLog == 1

\* The positions 1..Len(s) of a list or table, in order
Positions(df) == [i \in 1..Len(df) |-> i]

-----------------------------------------------------------------------------
(* Severity (class Severity) and the threshold table of determine_severity *)

NoSeverity == "None"
LOW == "LOW"
MEDIUM == "MEDIUM"
HIGH == "HIGH"
CRITICAL == "CRITICAL"

LowFrom == 1
MediumFrom == 3
HighFrom == 5
CriticalFrom == 10

\* percentage < k, for a percentage num/den with den > 0
PctLt(p, k) == p.num < k * p.den

\* The same cascade with < replaced by <= at the first test: exactly 1 % gives no alert.
determine_severity_le(percentage) ==
    IF percentage.num <= LowFrom * percentage.den THEN NoSeverity
    ELSE IF PctLt(percentage, MediumFrom) THEN LOW
    ELSE IF PctLt(percentage, HighFrom) THEN MEDIUM
    ELSE IF PctLt(percentage, CriticalFrom) THEN HIGH
    ELSE CRITICAL

\* The cascade with the High and Medium results exchanged.
determine_severity_swapped(percentage) ==
    IF PctLt(percentage, LowFrom) THEN NoSeverity
    ELSE IF PctLt(percentage, MediumFrom) THEN LOW
    ELSE IF PctLt(percentage, HighFrom) THEN HIGH
    ELSE IF PctLt(percentage, CriticalFrom) THEN MEDIUM
    ELSE CRITICAL

determine_severity(percentage) ==
    IF PctLt(percentage, LowFrom) THEN NoSeverity
    ELSE IF PctLt(percentage, MediumFrom) THEN LOW
    ELSE IF PctLt(percentage, HighFrom) THEN MEDIUM
    ELSE IF PctLt(percentage, CriticalFrom) THEN HIGH
    ELSE CRITICAL

\* The percentage without the guard's zero: a zero total counts as one record.
Percentage_zero_total(affected, total) ==
    IF total > 0 THEN [num |-> affected * 100, den |-> total]
    ELSE [num |-> affected * 100, den |-> 1]

\* (affected / total * 100) if total > 0 else 0
Percentage(affected, total) ==
    IF total > 0 THEN [num |-> affected * 100, den |-> total]
    ELSE [num |-> 0, den |-> 1]

-----------------------------------------------------------------------------
(* Python floats: IEEE-754 doubles, as a mantissa of MantissaBits binary digits *)
(* (most significant first) and the exponent of its last digit; zero has the    *)
(* empty mantissa.  Division and multiplication round to nearest, ties to even. *)

MantissaBits == 53

\* The binary digits of a natural number, most significant first (<<>> for 0)
RECURSIVE Bits(_)
Bits(n) == IF n = 0 THEN <<>> ELSE Bits(n \div 2) \o <<n % 2>>

\* The natural number of a digit sequence
RECURSIVE FromBits(_)
FromBits(b) ==
    IF b = <<>> THEN 0 ELSE 2 * FromBits(SubSeq(b, 1, Len(b) - 1)) + b[Len(b)]

\* The first n binary digits of the fraction r/t (0 <= r < t), and the remainder left
\* (long division, the digits of the first half before those of the second)
RECURSIVE FracBits(_, _, _)
FracBits(r, t, n) ==
    IF n = 0 THEN [bits |-> <<>>, rem |-> r]
    ELSE IF n = 1
    THEN LET b == IF 2 * r >= t THEN 1 ELSE 0
         IN  [bits |-> <<b>>, rem |-> 2 * r - b * t]
    ELSE LET first == FracBits(r, t, n \div 2)
             second == FracBits(first.rem, t, n - n \div 2)
         IN  [bits |-> first.bits \o second.bits, rem |-> second.rem]

\* The digits d (least significant first) times a small number k plus carry, as
\* Len(d) digits and the carry out of them: schoolbook multiplication, the low
\* digits before the high ones.
RECURSIVE MulDigits(_, _, _)
MulDigits(d, k, carry) ==
    IF d = <<>> THEN [bits |-> <<>>, carry |-> carry]
    ELSE IF Len(d) = 1
    THEN [bits |-> <<(d[1] * k + carry) % 2>>, carry |-> (d[1] * k + carry) \div 2]
    ELSE LET h == Len(d) \div 2
             low == MulDigits(SubSeq(d, 1, h), k, carry)
             high == MulDigits(SubSeq(d, h + 1, Len(d)), k, low.carry)
         IN  [bits |-> low.bits \o high.bits, carry |-> high.carry]

\* The digit sequence b (most significant first) times a small number k
MulSmall(b, k) ==
    LET Reversed(d) == [i \in 1..Len(d) |-> d[Len(d) + 1 - i]]
        p == MulDigits(Reversed(b), k, 0)
    IN  Bits(p.carry) \o Reversed(p.bits)

\* Round to nearest, ties to even: m holds the MantissaBits kept digits, guard is the
\* first digit dropped and sticky tells whether anything non-zero follows it.  Rounding
\* up adds one to m; a carry out of the first digit moves the exponent.
RoundNearestEven(m, e, guard, sticky) ==
    IF guard = 1 /\ (sticky \/ m[Len(m)] = 1)
    THEN LET zeros == {i \in 1..Len(m) : m[i] = 0}
             j == CHOOSE i \in zeros : \A k \in zeros : k <= i
         IN  IF zeros = {}
             THEN [m |-> <<1>> \o [i \in 1..(Len(m) - 1) |-> 0], e |-> e + 1]
             ELSE [m |-> [i \in 1..Len(m) |-> IF i < j THEN m[i]
                                              ELSE IF i = j THEN 1 ELSE 0],
                   e |-> e]
    ELSE [m |-> m, e |-> e]

\* The least s with a * 2^s >= t, and that a * 2^s
RECURSIVE ShiftTo(_, _)
ShiftTo(a, t) ==
    IF a >= t THEN [s |-> 0, a |-> a]
    ELSE LET next == ShiftTo(2 * a, t)
         IN  [s |-> next.s + 1, a |-> next.a]

\* a / t of two positive integers
FloatDiv(a, t) ==
    LET shifted == ShiftTo(a, t)
        s == shifted.s
        a2 == shifted.a
        ip == Bits(a2 \div t)
        n == MantissaBits - Len(ip)
        fr == FracBits(a2 % t, t, n)
        guard == IF 2 * fr.rem >= t THEN 1 ELSE 0
    IN  RoundNearestEven(ip \o fr.bits, 0 - s - n, guard, 2 * fr.rem - guard * t # 0)

\* x * 100
FloatMul100(x) ==
    IF x.m = <<>> THEN x
    ELSE LET p == MulSmall(x.m, 100)
             d == Len(p) - MantissaBits
         IN  RoundNearestEven(SubSeq(p, 1, MantissaBits), x.e + d, p[MantissaBits + 1],
                              \E i \in (MantissaBits + 2)..Len(p) : p[i] = 1)

\* x * k for a small whole number k >= 1: the exact product, rounded
FloatTimes(x, k) ==
    LET p == MulSmall(x.m, k)
        d == Len(p) - MantissaBits
    IN  IF x.m = <<>> \/ d <= 0 THEN [m |-> MulSmall(x.m, k), e |-> x.e]
        ELSE RoundNearestEven(SubSeq(p, 1, MantissaBits), x.e + d, p[MantissaBits + 1],
                              \E i \in (MantissaBits + 2)..Len(p) : p[i] = 1)

\* The digits of two floats that are not negative, written to the smaller of the two
\* exponents e and to the same number of digits
Aligned(x, y) ==
    LET e == IF x.e < y.e THEN x.e ELSE y.e
        dx == x.m \o [i \in 1..(x.e - e) |-> 0]
        dy == y.m \o [i \in 1..(y.e - e) |-> 0]
        n == IF Len(dx) > Len(dy) THEN Len(dx) ELSE Len(dy)
    IN  [x |-> [i \in 1..(n - Len(dx)) |-> 0] \o dx,
         y |-> [i \in 1..(n - Len(dy)) |-> 0] \o dy,
         e |-> e]

\* x > y for two floats that are not negative
FloatGreater(x, y) ==
    LET a == Aligned(x, y)
    IN  \E i \in 1..Len(a.x) : a.x[i] > a.y[i] /\ \A j \in 1..(i - 1) : a.x[j] = a.y[j]

\* (x - y).abs() for two floats that are not negative: the smaller taken from the
\* larger digit by digit (a digit borrows when the digits after it are less than
\* those under them), the leading zeros dropped, and the digits rounded when more
\* than MantissaBits of them are left
FloatAbsDiff(x, y) ==
    LET Rounded(digits, e) ==
            IF Len(digits) <= MantissaBits THEN [m |-> digits, e |-> e]
            ELSE RoundNearestEven(SubSeq(digits, 1, MantissaBits),
                                  e + Len(digits) - MantissaBits,
                                  digits[MantissaBits + 1],
                                  \E i \in (MantissaBits + 2)..Len(digits) : digits[i] = 1)
        Stripped(d, e) ==
            LET ones == {i \in 1..Len(d) : d[i] = 1}
            IN  IF ones = {} THEN [m |-> <<>>, e |-> 0]
                ELSE Rounded(SubSeq(d, CHOOSE i \in ones : \A k \in ones : i <= k, Len(d)), e)
        Difference(big, small, e) ==
            LET Borrows(i) ==
                    \E j \in i..Len(big) :
                        big[j] < small[j] /\ \A k \in i..(j - 1) : big[k] = small[k]
            IN  Stripped([i \in 1..Len(big) |->
                             (2 + big[i] - small[i] - (IF Borrows(i + 1) THEN 1 ELSE 0)) % 2],
                         e)
        Ordered(a, greater) ==
            IF greater THEN Difference(a.x, a.y, a.e) ELSE Difference(a.y, a.x, a.e)
    IN  Ordered(Aligned(x, y), FloatGreater(x, y))

\* self.percentage: (affected_records / total_records * 100) if total_records > 0 else 0
FloatPercentage(affected_records, total_records) ==
    IF total_records > 0 /\ affected_records > 0
    THEN FloatMul100(FloatDiv(affected_records, total_records))
    ELSE [m |-> <<>>, e |-> 0]

-----------------------------------------------------------------------------
(* class Alert *)

ABERTO == "ABERTO"

\* Alert.__init__: the percentage is recomputed from the counts; status starts ABERTO.
Alert(dataset, issue, severity, affected_records, total_records, details) ==
    [dataset |-> dataset,
     issue |-> issue,
     severity |-> severity,
     affected_records |-> affected_records,
     total_records |-> total_records,
     percentage |-> Percentage(affected_records, total_records),
     details |-> details,
     status |-> ABERTO]

\* round(x, 2) of a non-negative float below 2^52, in hundredths: the decimal nearest
\* to the float's exact binary value, ties to even.
Round2(x) ==
    IF x.m = <<>> THEN 0
    ELSE LET p == MulSmall(x.m, 100)
             f == 0 - x.e
             z == [i \in 1..(IF Len(p) > f THEN 0 ELSE f + 1 - Len(p)) |-> 0] \o p
             q == FromBits(SubSeq(z, 1, Len(z) - f))
             guard == z[Len(z) - f + 1]
             sticky == \E i \in (Len(z) - f + 2)..Len(z) : z[i] = 1
         IN  IF guard = 1 /\ (sticky \/ q % 2 = 1) THEN q + 1 ELSE q

\* round(self.percentage, 2) for the counts of the alerts the specifications below
\* create, evaluated once: triples <<affected, total, hundredths>>
RoundedPercentages ==
    {<<c[1], c[2], Round2(FloatPercentage(c[1], c[2]))>> :
        c \in (0..12) \X {1, 2, 3, 100, 160, 200}}

\* round(self.percentage, 2) of an alert with these counts
RoundedPercentage(affected_records, total_records) ==
    IF \E p \in RoundedPercentages : p[1] = affected_records /\ p[2] = total_records
    THEN (CHOOSE p \in RoundedPercentages :
              p[1] = affected_records /\ p[2] = total_records)[3]
    ELSE Round2(FloatPercentage(affected_records, total_records))

\* Alert.to_dict: the snapshot written into an escalation (percentage in hundredths)
to_dict(alert) ==
    [dataset |-> alert.dataset,
     issue |-> alert.issue,
     severity |-> alert.severity,
     affected_records |-> alert.affected_records,
     total_records |-> alert.total_records,
     percentage |-> RoundedPercentage(alert.affected_records, alert.total_records),
     status |-> alert.status,
     details |-> alert.details]

-----------------------------------------------------------------------------
(* AlertSystem.create_alert *)

\* create_alert without the early return: below 1 % it builds an alert all the same,
\* of the lowest severity.
NewAlert_below_threshold(dataset, issue, affected, total, details) ==
    LET percentage == Percentage(affected, total)
        severity == determine_severity(percentage)
    IN  IF severity = NoSeverity
        THEN <<Alert(dataset, issue, LOW, affected, total, details)>>
        ELSE <<Alert(dataset, issue, severity, affected, total, details)>>

\* The alert create_alert builds, as a sequence: <<>> when it returns None.
NewAlert(dataset, issue, affected, total, details) ==
    LET percentage == Percentage(affected, total)
        severity == determine_severity(percentage)
    IN  IF severity = NoSeverity THEN <<>>
        ELSE <<Alert(dataset, issue, severity, affected, total, details)>>

\* create_alert putting the new alert at the head of the list.
AlertsAfterCreate_prepend(al, dataset, issue, affected, total, details) ==
    NewAlert(dataset, issue, affected, total, details) \o al

\* self.alerts after create_alert, given self.alerts before
AlertsAfterCreate(al, dataset, issue, affected, total, details) ==
    al \o NewAlert(dataset, issue, affected, total, details)

create_alert(dataset, issue, affected, total, details) ==
    /\ Len(AlertsAfterCreate(alerts, dataset, issue, affected, total, details)) <= MaxAlerts
    /\ alerts' = AlertsAfterCreate(alerts, dataset, issue, affected, total, details)
    /\ ret' = [op |-> "create_alert", dataset |-> dataset, issue |-> issue,
               affected |-> affected, total |-> total, details |-> details,
               raised |-> FALSE,
               result |-> NewAlert(dataset, issue, affected, total, details)]
    /\ UNCHANGED <<escalations_file, escalated, sevVars, cleanVars>>

-----------------------------------------------------------------------------
(* AlertSystem.escalate_alert *)

Recipients(severity) ==
    IF severity = CRITICAL THEN <<"CDO", "Data Owner", "Data Steward">>
    ELSE IF severity = HIGH THEN <<"Data Owner", "Data Steward">>
    ELSE IF severity = MEDIUM THEN <<"Data Steward">>
    ELSE <<"Data Custodian">>

SlaCritical == 4
SlaHigh == 24
SlaMedium == 48
SlaLow == 168

\* The SLA lookup with the High and Medium hours exchanged.
SlaHours_swapped(severity) ==
    IF severity = CRITICAL THEN SlaCritical
    ELSE IF severity = HIGH THEN SlaMedium
    ELSE IF severity = MEDIUM THEN SlaHigh
    ELSE SlaLow

SlaHours(severity) ==
    IF severity = CRITICAL THEN SlaCritical
    ELSE IF severity = HIGH THEN SlaHigh
    ELSE IF severity = MEDIUM THEN SlaMedium
    ELSE SlaLow

\* The escalation record escalate_alert builds and returns
Escalation(alert) ==
    [alert |-> to_dict(alert),
     recipients |-> Recipients(alert.severity),
     sla_hours |-> SlaHours(alert.severity)]

\* An escalate_alert that marks the alert it escalates.
AlertsAfterEscalate_marking(al, i) == [al EXCEPT ![i].status = "ESCALADO"]

\* self.alerts after escalate_alert on its i-th alert: the method reads the alert
\* (severity, to_dict) and assigns to no field of it nor to the list.
AlertsAfterEscalate(al, i) == al

\* escalate_alert on the i-th alert of the engine's list: the escalation is appended
\* to the escalations file (_save_escalation) and returned.
escalate_alert(i) ==
    /\ i \in 1..Len(alerts)
    /\ Len(escalations_file) < MaxEscalations
    /\ escalations_file' = Append(escalations_file, Escalation(alerts[i]))
    /\ escalated' = Append(escalated, i)
    /\ alerts' = AlertsAfterEscalate(alerts, i)
    /\ ret' = [op |-> "escalate_alert", index |-> i, alert |-> alerts[i],
               raised |-> FALSE,
               result |-> <<Escalation(alerts[i])>>]
    /\ UNCHANGED <<sevVars, cleanVars>>

-----------------------------------------------------------------------------
(* AlertSystem.analyze_quality_results *)

\* str.replace(old, new) for a non-empty old: every occurrence, from the left
RECURSIVE str_replace(_, _, _)
str_replace(s, old, new) ==
    IF Len(s) < Len(old) THEN s
    ELSE IF SubSeq(s, 1, Len(old)) = old
    THEN new \o str_replace(SubSeq(s, Len(old) + 1, Len(s)), old, new)
    ELSE SubSeq(s, 1, 1) \o str_replace(SubSeq(s, 2, Len(s)), old, new)

\* checkpoint.replace('checkpoint_', '').replace('_lab', '')
DatasetOf(checkpoint) ==
    str_replace(str_replace(checkpoint, "checkpoint_", ""), "_lab", "")

\* The per-check entries read under whatever key the report has.
Checkpoints_any_key(results) == results.entries

\* results.get('checkpoints', {}): the per-check entries are read under that key only
Checkpoints(results) ==
    IF results.key = "checkpoints" THEN results.entries ELSE <<>>

\* The loop over the checkpoints, in dictionary order: one create_alert(1, 1) per
\* entry whose success is false.
RECURSIVE AnalyzeCheckpoints(_, _)
AnalyzeCheckpoints(al, entries) ==
    IF entries = <<>> THEN al
    ELSE LET e == Head(entries)
             al1 == IF ~e.success
                    THEN AlertsAfterCreate(al, DatasetOf(e.name),
                                           "Checkpoint falhou completamente", 1, 1, "error")
                    ELSE al
         IN  AnalyzeCheckpoints(al1, Tail(entries))

\* summary.get('success_rate', 100)
SuccessRate(summary) == IF summary.has_rate THEN summary.success_rate ELSE 100

\* The aggregate alert attempted for every summary.
AnalyzeSummary_ungated(al, summary) ==
    AlertsAfterCreate(al, "GERAL", "Taxa de falha nos checkpoints",
                      summary.failed, summary.total, "summary")

\* The aggregate alert: attempted only when 100 - success_rate > 0
AnalyzeSummary(al, summary) ==
    IF 100 - SuccessRate(summary) > 0
    THEN AlertsAfterCreate(al, "GERAL", "Taxa de falha nos checkpoints",
                           summary.failed, summary.total, "summary")
    ELSE al

\* self.alerts after analyze_quality_results(results)
AlertsAfterAnalyze(al, results) ==
    AnalyzeSummary(AnalyzeCheckpoints(al, Checkpoints(results)), results.summary)

analyze_quality_results(results) ==
    /\ Len(AlertsAfterAnalyze(alerts, results)) <= MaxAlerts
    /\ alerts' = AlertsAfterAnalyze(alerts, results)
    /\ ret' = [op |-> "analyze_quality_results", results |-> results,
               before |-> Len(alerts), raised |-> FALSE, result |-> <<>>]
    /\ UNCHANGED <<escalations_file, escalated, sevVars, cleanVars>>

-----------------------------------------------------------------------------
(* AlertSystem.process_alerts *)

\* The loop's test with Medium alerts let through.
ShouldEscalate_medium(alert) == alert.severity \in {CRITICAL, HIGH, MEDIUM}

\* alert.severity in [Severity.CRITICAL, Severity.HIGH]
ShouldEscalate(alert) == alert.severity \in {CRITICAL, HIGH}

\* for alert in self.alerts: the positions the loop calls escalate_alert on, in list
\* order.  The loop runs over the whole list, the alerts of earlier calls included.
EscalatedPositions(al) ==
    SelectSeq(Positions(al), LAMBDA i : ShouldEscalate(al[i]))

\* self.alerts after escalate_alert was applied to the positions ps, one by one
RECURSIVE EscalateEach(_, _)
EscalateEach(al, ps) ==
    IF ps = <<>> THEN al
    ELSE EscalateEach(AlertsAfterEscalate(al, Head(ps)), Tail(ps))

\* The escalations those calls write, in order
EscalationsOf(al, ps) == [k \in 1..Len(ps) |-> Escalation(al[ps[k]])]

\* save_alerts: json.dumps(alerts_data, f, indent=2, ensure_ascii=False) passes the
\* file as a second positional argument, which json.dumps does not take: TypeError.
save_alerts_raises == TRUE

\* What process_alerts returns: self.alerts, when save_alerts let it get there
ProcessResult(al, raised) == IF raised THEN <<>> ELSE <<al>>

\* process_alerts(results): analyze, escalate, print the dashboard, save_alerts,
\* return self.alerts.  The exception of save_alerts leaves process_alerts after the
\* alerts were created and escalated, and nothing is returned.
process_alerts(results) ==
    LET al == AlertsAfterAnalyze(alerts, results)
        ps == EscalatedPositions(al)
    IN  /\ Len(al) <= MaxAlerts
        /\ Len(escalations_file) + Len(ps) <= MaxProcessEscalations
        /\ alerts' = EscalateEach(al, ps)
        /\ escalations_file' = escalations_file \o EscalationsOf(al, ps)
        /\ escalated' = escalated \o ps
        /\ ret' = [op |-> "process_alerts", results |-> results,
                   before |-> Len(alerts), escalated_before |-> Len(escalated),
                   raised |-> save_alerts_raises,
                   result |-> ProcessResult(EscalateEach(al, ps), save_alerts_raises)]
        /\ UNCHANGED <<sevVars, cleanVars>>

-----------------------------------------------------------------------------
(* Tables.  A DataFrame is a sequence of rows, a row a record of its columns.     *)
(* A missing value of a text column is NaN; timestamps are day numbers, NaT the   *)
(* missing one, and text that does not parse as a date is BadDate.                *)

NaN == "NaN"
NaT == 0
BadDate == -1

\* pd.isna(value), for a cell of a column of numbers too
isna(value) == ToString(value) = ToString(NaN)

\* The columns of each table (SchemaValidator.SCHEMAS)
ClientesColumns == {"id_cliente", "nome", "email", "telefone", "data_nascimento",
                    "cidade", "estado", "data_cadastro"}
ProdutosColumns == {"id_produto", "nome_produto", "categoria", "preco", "estoque",
                    "data_criacao", "ativo"}
VendasColumns == {"id_venda", "id_cliente", "id_produto", "quantidade", "valor_unitario",
                  "valor_total", "data_venda", "status"}
LogisticaColumns == {"id_entrega", "id_venda", "transportadora", "data_envio",
                     "data_entrega_prevista", "data_entrega_real", "status_entrega"}

\* df.columns: the columns of the rows; a table without rows has the columns of its
\* schema
Columns(df, schema) == IF df = <<>> THEN schema ELSE DOMAIN df[1]

\* pd.to_datetime(column, errors='coerce') on one value
to_datetime(x) == IF x > 0 THEN x ELSE NaT

\* The rows of df at the positions idx, in order (boolean indexing df[mask])
KeepRows(df, idx) ==
    LET nth(k) == CHOOSE i \in idx : Cardinality({j \in idx : j < i}) = k - 1
    IN  [k \in 1..Cardinality(idx) |-> df[nth(k)]]

\* column.unique() as a set
ColumnValues(df, col) == {df[i][col] : i \in 1..Len(df)}

\* df.duplicated(subset=[col]).sum() > 0
HasDuplicated(df, col) ==
    \E i, j \in 1..Len(df) : i < j /\ df[i][col] = df[j][col]

\* df.drop_duplicates(subset=[col], keep='first')
drop_duplicates_subset(df, col) ==
    KeepRows(df, {i \in 1..Len(df) : \A j \in 1..(i - 1) : df[j][col] # df[i][col]})

\* df.drop_duplicates(): rows equal in every column, the first kept
drop_duplicates(df) ==
    KeepRows(df, {i \in 1..Len(df) : \A j \in 1..(i - 1) : df[j] # df[i]})

\* The sort of sort_values, kind='quicksort': numpy's argsort of the keys v, as a
\* permutation t of their positions.  A stretch t[pl..pr] of more than
\* SmallQuicksort + 1 positions is partitioned around the median of its first, middle
\* and last key; a shorter one is sorted by insertion, which leaves equal keys in the
\* order it found them.  The partitioning does not.
SmallQuicksort == 16

Swap(t, i, j) == [t EXCEPT ![i] = t[j], ![j] = t[i]]

InsertionSort(v, t, pl, pr) ==
    LET Before(a, b) == v[t[a]] < v[t[b]] \/ (v[t[a]] = v[t[b]] /\ a < b)
        Rank(a) == Cardinality({b \in pl..pr : Before(b, a)})
    IN  [k \in 1..Len(t) |->
            IF k \in pl..pr THEN t[CHOOSE a \in pl..pr : Rank(a) = k - pl] ELSE t[k]]

\* do ++pi while v[*pi] < vp, from pi on
RECURSIVE ScanUp(_, _, _, _)
ScanUp(v, t, pi, vp) == IF v[t[pi]] < vp THEN ScanUp(v, t, pi + 1, vp) ELSE pi

\* do --pj while vp < v[*pj], from pj on
RECURSIVE ScanDown(_, _, _, _)
ScanDown(v, t, pj, vp) == IF vp < v[t[pj]] THEN ScanDown(v, t, pj - 1, vp) ELSE pj

\* The partition loop: the permutation it leaves and the position where pi stopped
RECURSIVE Partition(_, _, _, _, _)
Partition(v, t, pi, pj, vp) ==
    LET i == ScanUp(v, t, pi + 1, vp)
        j == ScanDown(v, t, pj - 1, vp)
    IN  IF i >= j THEN [tosort |-> t, pi |-> i]
        ELSE Partition(v, Swap(t, i, j), i, j, vp)

RECURSIVE aquicksort(_, _, _, _)
aquicksort(v, t, pl, pr) ==
    IF pr - pl > SmallQuicksort
    THEN LET pm == pl + ((pr - pl) \div 2)
             t1 == IF v[t[pm]] < v[t[pl]] THEN Swap(t, pm, pl) ELSE t
             t2 == IF v[t1[pr]] < v[t1[pm]] THEN Swap(t1, pr, pm) ELSE t1
             t3 == IF v[t2[pm]] < v[t2[pl]] THEN Swap(t2, pm, pl) ELSE t2
             vp == v[t3[pm]]
             t4 == Swap(t3, pm, pr - 1)
             p == Partition(v, t4, pl, pr - 1, vp)
             t5 == Swap(p.tosort, p.pi, pr - 1)
         IN  aquicksort(v, aquicksort(v, t5, pl, p.pi - 1), p.pi + 1, pr)
    ELSE InsertionSort(v, t, pl, pr)

\* df.sort_values('data_cadastro', ascending=False): the rows with a date are taken
\* in reverse, sorted ascending by the quicksort above and reversed again; the rows
\* without a date (NaT) follow, in their input order.
sort_values_cadastro_desc(df) ==
    LET valid == SelectSeq(Positions(df), LAMBDA i : df[i].data_cadastro # NaT)
        missing == SelectSeq(Positions(df), LAMBDA i : df[i].data_cadastro = NaT)
        m == Len(valid)
        reversed == [k \in 1..m |-> valid[m + 1 - k]]
        v == [k \in 1..m |-> df[reversed[k]].data_cadastro]
        sorted == aquicksort(v, Positions(v), 1, m)
        indexer == [k \in 1..m |-> reversed[sorted[m + 1 - k]]] \o missing
    IN  [k \in 1..Len(df) |-> df[indexer[k]]]

-----------------------------------------------------------------------------
(* Text: str.lower, str.upper, str.title and str.strip on the texts the model's    *)
(* tables use; NaN stays NaN under the .str methods.  A cell of a text column is   *)
(* missing (NaN), a numeral (decimal digits only, fewer than 16) or other text.    *)

str_strip(s) ==
    CASE s = " Ana@X.com " -> "Ana@X.com"
      [] s = " ana@x.com " -> "ana@x.com"
      [] s = " SP " -> "SP"
      [] s = " sp " -> "sp"
      [] s = " Sao Paulo " -> "Sao Paulo"
      [] s = " sao paulo " -> "sao paulo"
      [] s = "  " -> ""
      [] s = " Mouse " -> "Mouse"
      [] s = " perifericos " -> "perifericos"
      [] s = " Perifericos " -> "Perifericos"
      [] s = " Cancelada " -> "Cancelada"
      [] s = " cancelada " -> "cancelada"
      [] s = " Correios " -> "Correios"
      [] s = " Entregue " -> "Entregue"
      [] OTHER -> s

str_lower(s) ==
    CASE s = " Ana@X.com " -> " ana@x.com "
      [] s = "Ana@X.com" -> "ana@x.com"
      [] s = "True" -> "true"
      [] s = "TRUE" -> "true"
      [] s = "False" -> "false"
      [] s = "Sim" -> "sim"
      [] s = NaN -> NaN
      [] OTHER -> s

str_upper(s) ==
    CASE s = "sp" -> "SP"
      [] s = " sp " -> " SP "
      [] s = NaN -> NaN
      [] OTHER -> s

str_title(s) ==
    CASE s = "sao paulo" -> "Sao Paulo"
      [] s = " sao paulo " -> " Sao Paulo "
      [] s = "SAO PAULO" -> "Sao Paulo"
      [] s = "perifericos" -> "Perifericos"
      [] s = " perifericos " -> " Perifericos "
      [] s = "cancelada" -> "Cancelada"
      [] s = " cancelada " -> " Cancelada "
      [] s = "CANCELADA" -> "Cancelada"
      [] s = "concluida" -> "Concluida"
      [] s = "correios" -> "Correios"
      [] s = "entregue" -> "Entregue"
      [] s = NaN -> NaN
      [] OTHER -> s

\* pd.read_csv(path).dtypes on the columns given, for the file whose cells are df
\* (main reads the four tables so).  A file without rows gives every column the
\* dtype object; so does a column with a cell that is text and no numeral.  A column
\* of numerals is int64, one of numerals and missing cells, or of missing cells only,
\* float64.
read_csv_dtypes(df, columns) ==
    LET IsNumeral(s) ==
            /\ s # ""
            /\ \A k \in 1..Len(s) :
                   SubSeq(s, k, k) \in {"0", "1", "2", "3", "4", "5", "6", "7", "8", "9"}
        Cells(col) == {df[i][col] : i \in 1..Len(df)}
    IN  [col \in (IF df = <<>> THEN columns ELSE columns \cap DOMAIN df[1]) |->
            IF df = <<>> \/ \E s \in Cells(col) : s # NaN /\ ~IsNumeral(s) THEN "object"
            ELSE IF NaN \in Cells(col) THEN "float64"
            ELSE "int64"]

\* astype(str) on one cell of a column of the dtype given: the missing value becomes
\* the text 'nan'; the text of an object column stays; a numeral of an int64 column
\* is written without leading zeros, and one of a float64 column as a float, with
\* '.0' after its digits.
astype_str(s, dtype) ==
    IF s = NaN THEN "nan"
    ELSE IF dtype = "object" THEN s
    ELSE LET zeros == CHOOSE z \in 0..(Len(s) - 1) :
                          /\ \A k \in 1..z : SubSeq(s, k, k) = "0"
                          /\ z = Len(s) - 1 \/ SubSeq(s, z + 1, z + 1) # "0"
             digits == SubSeq(s, zeros + 1, Len(s))
         IN  IF dtype = "float64" THEN digits \o ".0" ELSE digits

\* The telephone rewritten with the country code put in front of it.
digits_only_with_country_code(s) == "55" \o s

\* re.sub(r'\D', '', x): the decimal digits of x, in order
digits_only(s) ==
    LET RECURSIVE Kept(_)
        Kept(k) ==
            IF k > Len(s) THEN ""
            ELSE IF SubSeq(s, k, k) \in {"0", "1", "2", "3", "4", "5", "6", "7", "8", "9"}
                 THEN SubSeq(s, k, k) \o Kept(k + 1)
                 ELSE Kept(k + 1)
    IN  Kept(1)

\* str.match(email_pattern, na=False)
email_matches(s) == s \in {"ana@x.com", "bia@y.org"}

\* str.strip() == '' on a value that is not missing
is_blank(s) == s # NaN /\ str_strip(s) = ""

-----------------------------------------------------------------------------
(* DataCleaner.clean_clientes *)

CurrentYear == 2026
MinBirthYear == 1900
NewYearsDay == 7

\* datetime.now().year: the days from NewYearsDay on belong to the next year
YearOf(now) == IF now < NewYearsDay THEN CurrentYear ELSE CurrentYear + 1

\* One row after steps 2 to 8: the columns the steps assign (data_nascimento is kept
\* as the year of the date); every other column of the copy (id_cliente, data_cadastro
\* when the table has it, any further column) stays as it was read.  dtypes are the
\* dtypes of the frame's text columns.
CleanClienteRow(r, dtypes, current_year) ==
    LET email == str_strip(str_lower(r.email))
        born == to_datetime(r.data_nascimento)
    IN  [r EXCEPT !.telefone = digits_only(astype_str(r.telefone, dtypes.telefone)),
                  !.email = IF email_matches(email) THEN email ELSE NaN,
                  !.estado = str_strip(str_upper(r.estado)),
                  !.cidade = str_strip(str_title(r.cidade)),
                  !.nome = IF r.nome = NaN \/ is_blank(r.nome)
                           THEN "Cliente " \o ToString(r.id_cliente)
                           ELSE r.nome,
                  !.data_nascimento =
                      IF born # NaT /\ (born < MinBirthYear \/ born > current_year)
                      THEN NaT
                      ELSE born]

\* Step 1: only when some identifier is duplicated, data_cadastro is parsed, the rows
\* are sorted by it (latest first) and the first row of each identifier is kept.
DedupClientes(df) ==
    IF HasDuplicated(df, "id_cliente")
    THEN drop_duplicates_subset(
             sort_values_cadastro_desc(
                 [i \in 1..Len(df) |->
                     [df[i] EXCEPT !.data_cadastro = to_datetime(df[i].data_cadastro)]]),
             "id_cliente")
    ELSE df

\* The exception a cleaning raises on a frame with the columns and dtypes given, when
\* it reads the columns of reads in that order, None when it raises none.  df['col']
\* on a column the frame does not have is a KeyError; the .str accessor on a column
\* whose dtype is not object is an AttributeError, whatever rows the frame has left.
\* The first failing read ends the cleaning.
FirstException(columns, dtypes, reads) ==
    LET Exception(read) ==
            IF read.col \notin columns THEN "KeyError"
            ELSE IF read.str /\ dtypes[read.col] # "object" THEN "AttributeError"
            ELSE "None"
        failing == SelectSeq(reads, LAMBDA read : Exception(read) # "None")
    IN  IF failing = <<>> THEN "None" ELSE Exception(failing[1])

\* The exception clean_clientes(df) raises, None when it returns.  It reads
\* id_cliente first (line 44), data_cadastro only when an identifier is duplicated,
\* and then the columns it standardises: telefone through astype(str), email, estado,
\* cidade and nome through .str (lines 57, 68, 71, 74), data_nascimento last.
clean_clientes_raises(df, dtypes) ==
    LET columns == Columns(df, ClientesColumns)
    IN  IF "id_cliente" \notin columns THEN "KeyError"
        ELSE FirstException(columns, dtypes,
                 (IF HasDuplicated(df, "id_cliente")
                  THEN <<[col |-> "data_cadastro", str |-> FALSE]>> ELSE <<>>)
                 \o <<[col |-> "telefone", str |-> FALSE],
                      [col |-> "email", str |-> TRUE],
                      [col |-> "estado", str |-> TRUE],
                      [col |-> "cidade", str |-> TRUE],
                      [col |-> "nome", str |-> TRUE],
                      [col |-> "data_nascimento", str |-> FALSE]>>)

\* clean_clientes(df), run when datetime.now() is now, on a frame whose text columns
\* have the dtypes given; removing rows leaves the dtypes as they are
clean_clientes(df, dtypes, now) ==
    LET d1 == DedupClientes(df)
    IN  [i \in 1..Len(d1) |-> CleanClienteRow(d1[i], dtypes, YearOf(now))]

-----------------------------------------------------------------------------
(* DataCleaner.clean_produtos *)

Abs(x) == IF x < 0 THEN 0 - x ELSE x

\* df['ativo'].astype(str).str.lower().map({'true': True, 'false': False})
MapAtivo(s) ==
    CASE s = "true" -> "True"
      [] s = "false" -> "False"
      [] OTHER -> NaN

\* Step 3 letting a negative stock through.
CorrectedEstoque_kept(estoque) == estoque

\* Step 3: a negative stock is set to 0
CorrectedEstoque(estoque) == IF estoque < 0 THEN 0 ELSE estoque

\* One row after steps 2 to 8: the columns the steps assign; every other column of
\* the copy (id_produto, when the table has it) stays as it was read.  (ativo is
\* lower-cased after astype(str), so True read as a truth value and the cell 'True'
\* kept as text both give 'true'.)
CleanProdutoRow(r) ==
    [r EXCEPT !.nome_produto = str_strip(r.nome_produto),
              !.categoria = str_strip(str_title(
                                IF r.categoria = NaN \/ is_blank(r.categoria)
                                THEN "Sem Categoria"
                                ELSE r.categoria)),
              !.preco = IF r.preco < 0 THEN Abs(r.preco) ELSE r.preco,
              !.estoque = CorrectedEstoque(r.estoque),
              !.ativo = MapAtivo(str_lower(astype_str(r.ativo, "object"))),
              !.data_criacao = to_datetime(r.data_criacao)]

\* The exception clean_produtos(df) raises, None when it returns.  It reads the
\* columns it corrects and standardises, categoria and nome_produto through .str
\* (lines 120, 126, 129); it never reads id_produto.
clean_produtos_raises(df, dtypes) ==
    FirstException(Columns(df, ProdutosColumns), dtypes,
                   <<[col |-> "preco", str |-> FALSE],
                     [col |-> "estoque", str |-> FALSE],
                     [col |-> "categoria", str |-> TRUE],
                     [col |-> "nome_produto", str |-> TRUE],
                     [col |-> "ativo", str |-> FALSE],
                     [col |-> "data_criacao", str |-> FALSE]>>)

\* Step 1 removes rows that repeat an earlier row in every column; rows that share
\* id_produto and differ elsewhere all stay.
clean_produtos(df) ==
    LET d1 == drop_duplicates(df)
    IN  [i \in 1..Len(d1) |-> CleanProdutoRow(d1[i])]

-----------------------------------------------------------------------------
(* DataCleaner.clean_vendas.  Money is in cents.                                  *)

Tolerance == 1
Now == 5
Cancelada == "Cancelada"

\* Step 3 on one row: the status is compared as it was read, before step 6
CorrectedQuantidade(r) ==
    IF r.quantidade <= 0 /\ r.status # Cancelada THEN Abs(r.quantidade) ELSE r.quantidade

\* Step 4 on one row: the total is replaced by quantidade * valor_unitario when
\* (valor_total - product).abs() > 0.01.  A missing total compares as not greater
\* and stays.  The comparison is made in binary floating point, where the amounts are
\* off their decimals by far less than a cent: below one cent of difference it is
\* false, from two cents on it is true, and at exactly one cent it is computed on
\* the floats (|1.99 - 2.00| > 0.01, |10.01 - 10.00| <= 0.01).  Two amounts one cent
\* apart have the same sign, or one of them is 0.  FloatOfCents is the float
\* pd.read_csv gives an amount written with two decimals, and the float of 0.01.
RecomputedTotal(r) ==
    LET FloatOfCents(cents) ==
            IF cents = 0 THEN [m |-> <<>>, e |-> 0] ELSE FloatDiv(cents, 100)
        quantidade == CorrectedQuantidade(r)
        calculado == quantidade * r.valor_unitario
        difference == FloatAbsDiff(FloatOfCents(Abs(r.valor_total)),
                                   FloatTimes(FloatOfCents(Abs(r.valor_unitario)),
                                              Abs(quantidade)))
    IN  IF isna(r.valor_total) THEN r.valor_total
        ELSE IF Abs(r.valor_total - calculado) > Tolerance THEN calculado
        ELSE IF Abs(r.valor_total - calculado) < Tolerance THEN r.valor_total
        ELSE IF FloatGreater(difference, FloatOfCents(Tolerance)) THEN calculado
        ELSE r.valor_total

\* One row after steps 3 to 6: the columns the steps assign; the others (id_venda,
\* when the table has it) stay as they were read
CleanVendaRow(r, now) ==
    LET data == to_datetime(r.data_venda)
    IN  [r EXCEPT !.quantidade = CorrectedQuantidade(r),
                  !.valor_total = RecomputedTotal(r),
                  !.data_venda = IF data > now THEN now ELSE data,
                  !.status = str_strip(str_title(r.status))]

\* Steps 1 and 2 without the product check.
ValidVendas_clients_only(df, df_clientes, df_produtos) ==
    SelectSeq(Positions(df),
              LAMBDA i : df[i].id_cliente \in ColumnValues(df_clientes, "id_cliente"))

\* Steps 1 and 2 with a check left out when the table it checks against has no rows.
ValidVendas_skip_when_empty(df, df_clientes, df_produtos) ==
    LET d1 == SelectSeq(Positions(df),
                  LAMBDA i : df_clientes = <<>>
                             \/ df[i].id_cliente \in ColumnValues(df_clientes, "id_cliente"))
    IN  SelectSeq(d1,
                  LAMBDA i : df_produtos = <<>>
                             \/ df[i].id_produto \in ColumnValues(df_produtos, "id_produto"))

\* Steps 1 and 2, as positions of df: the sales whose id_cliente is in df_clientes,
\* and of those the ones whose id_produto is in df_produtos.
ValidVendas(df, df_clientes, df_produtos) ==
    LET d1 == SelectSeq(Positions(df),
                  LAMBDA i : df[i].id_cliente \in ColumnValues(df_clientes, "id_cliente"))
    IN  SelectSeq(d1,
                  LAMBDA i : df[i].id_produto \in ColumnValues(df_produtos, "id_produto"))

\* The exception clean_vendas raises, None when it returns.  It reads id_cliente of
\* the customers, id_produto of the products and the columns of the sales it checks
\* and corrects, status through .str at the end (line 190); it never reads id_venda.
\* The arguments are the columns of its three tables and the dtypes of the sales.
clean_vendas_raises(columns, dtypes, columns_clientes, columns_produtos) ==
    IF "id_cliente" \notin columns_clientes \/ "id_cliente" \notin columns THEN "KeyError"
    ELSE IF "id_produto" \notin columns_produtos THEN "KeyError"
    ELSE FirstException(columns, dtypes,
                        <<[col |-> "id_produto", str |-> FALSE],
                          [col |-> "status", str |-> FALSE],
                          [col |-> "quantidade", str |-> FALSE],
                          [col |-> "valor_unitario", str |-> FALSE],
                          [col |-> "valor_total", str |-> FALSE],
                          [col |-> "data_venda", str |-> FALSE],
                          [col |-> "status", str |-> TRUE]>>)

\* clean_vendas(df, df_clientes, df_produtos), run when datetime.now() is now.
\* (Step 5 reads the clock twice, to compare and to replace; both reads are now.)
clean_vendas(df, df_clientes, df_produtos, now) ==
    LET kept == ValidVendas(df, df_clientes, df_produtos)
    IN  [k \in 1..Len(kept) |-> CleanVendaRow(df[kept[k]], now)]

-----------------------------------------------------------------------------
(* DataCleaner.clean_logistica *)

\* One row after steps 2 to 4: the columns the steps assign; id_entrega and id_venda
\* stay as they were read
CleanLogisticaRow(r) ==
    [r EXCEPT !.transportadora = str_strip(str_title(r.transportadora)),
              !.data_envio = to_datetime(r.data_envio),
              !.data_entrega_prevista = to_datetime(r.data_entrega_prevista),
              !.data_entrega_real = to_datetime(r.data_entrega_real),
              !.status_entrega = str_strip(str_title(r.status_entrega))]

\* The exception clean_logistica raises, None when it returns.  It reads id_venda of
\* the sales and of the shipments, the three dates and, through .str, the two texts
\* (lines 216, 219); it never reads id_entrega.
clean_logistica_raises(columns, dtypes, columns_vendas) ==
    IF "id_venda" \notin columns_vendas THEN "KeyError"
    ELSE FirstException(columns, dtypes,
                        <<[col |-> "id_venda", str |-> FALSE],
                          [col |-> "data_envio", str |-> FALSE],
                          [col |-> "data_entrega_prevista", str |-> FALSE],
                          [col |-> "data_entrega_real", str |-> FALSE],
                          [col |-> "status_entrega", str |-> TRUE],
                          [col |-> "transportadora", str |-> TRUE]>>)

\* Step 5 counts the rows delivered before they were sent and only logs the count.
InvalidDelivery(r) ==
    /\ r.data_entrega_real # NaT
    /\ r.data_envio # NaT
    /\ r.data_entrega_real < r.data_envio

\* Step 1 dropping, with the orphans, the shipments delivered before they were sent.
ValidLogistica_dropping_invalid(df, df_vendas) ==
    KeepRows(df, {i \in 1..Len(df) :
                     /\ df[i].id_venda \in ColumnValues(df_vendas, "id_venda")
                     /\ ~InvalidDelivery(CleanLogisticaRow(df[i]))})

\* Step 1 keeping every shipment.
ValidLogistica_all(df, df_vendas) == df

\* Step 1: the shipments whose id_venda is in df_vendas
ValidLogistica(df, df_vendas) ==
    KeepRows(df, {i \in 1..Len(df) : df[i].id_venda \in ColumnValues(df_vendas, "id_venda")})

clean_logistica(df, df_vendas) ==
    LET d1 == ValidLogistica(df, df_vendas)
    IN  [i \in 1..Len(d1) |-> CleanLogisticaRow(d1[i])]

-----------------------------------------------------------------------------
(* DataCleaner.clean_all: the four cleanings, one after the other *)

\* A cleaning that works on the caller's table itself.
CallerTableAfter_in_place(df, df_clean) == df_clean

\* The caller's table after a cleaning of it returned df_clean: every cleaning begins
\* with df_clean = df.copy() and assigns to the copy only, so the table keeps its rows.
CallerTableAfter(df, df_clean) == df

\* str(value): a text as it is (the missing value as 'nan'), a number in decimal
\* digits, a truth value as True or False
str(value) ==
    LET s == ToString(value)
    IN  IF Len(s) >= 2 /\ SubSeq(s, 1, 1) = "\""
        THEN IF SubSeq(s, 2, Len(s) - 1) = NaN THEN "nan" ELSE SubSeq(s, 2, Len(s) - 1)
        ELSE IF s = "TRUE" THEN "True"
        ELSE IF s = "FALSE" THEN "False"
        ELSE s

\* self.corrections_log after log_correction(...), called when datetime.now() is now:
\* one record appended, old and new value as str() gives them
log_correction(log, now, dataset, record_id, field, old_value, new_value, reason) ==
    Append(log, [timestamp |-> now, dataset |-> dataset, record_id |-> record_id,
                 field |-> field, old_value |-> str(old_value),
                 new_value |-> str(new_value), reason |-> reason])

\* A cleaning that logs one correction when it changed its table.
LogAfter_logging(log, df, df_clean) ==
    IF df_clean # df THEN Append(log, "correction") ELSE log

\* self.corrections_log after a cleaning of df returned df_clean: log_correction is
\* the only writer of the log and no cleaning calls it.
LogAfter(log, df, df_clean) == log

\* Where clean_all stands once a cleaning raised: the exception leaves clean_all,
\* which catches nothing, and the tables cleaned so far are lost with its frame.
ErrorIn(exception, cleaning) == exception \o " in clean_" \o cleaning

\* The four tables are frames read by pd.read_csv, as main reads them: the dtypes of
\* their text columns are the ones it infers from the cells.
clean_all_clientes ==
    LET dtypes == read_csv_dtypes(clientes_df,
                                  {"telefone", "email", "estado", "cidade", "nome"})
        exception == clean_clientes_raises(clientes_df, dtypes)
        df_clean == clean_clientes(clientes_df, dtypes, clock)
    IN
    /\ pc = "clientes"
    /\ IF exception # "None"
       THEN /\ pc' = ErrorIn(exception, "clientes")
            /\ UNCHANGED <<clientes_df, clientes_clean, corrections_log>>
       ELSE /\ clientes_clean' = df_clean
            /\ clientes_df' = CallerTableAfter(clientes_df, df_clean)
            /\ corrections_log' = LogAfter(corrections_log, clientes_df, df_clean)
            /\ pc' = "produtos"
    /\ UNCHANGED <<produtos_df, vendas_df, logistica_df,
                   produtos_clean, vendas_clean, logistica_clean,
                   clock, runs, alertVars, sevVars>>

clean_all_produtos ==
    LET exception == clean_produtos_raises(
                         produtos_df,
                         read_csv_dtypes(produtos_df, {"categoria", "nome_produto"}))
    IN
    /\ pc = "produtos"
    /\ IF exception # "None"
       THEN /\ pc' = ErrorIn(exception, "produtos")
            /\ UNCHANGED <<produtos_df, produtos_clean, corrections_log>>
       ELSE /\ produtos_clean' = clean_produtos(produtos_df)
            /\ produtos_df' = CallerTableAfter(produtos_df, clean_produtos(produtos_df))
            /\ corrections_log' = LogAfter(corrections_log, produtos_df,
                                           clean_produtos(produtos_df))
            /\ pc' = "vendas"
    /\ UNCHANGED <<clientes_df, vendas_df, logistica_df,
                   clientes_clean, vendas_clean, logistica_clean,
                   clock, runs, alertVars, sevVars>>

\* The sale cleaning begun once the customers are back, on the products table that
\* clean_all has not filled yet.
clean_all_vendas_before_produtos ==
    /\ pc = "produtos"
    /\ vendas_clean' = clean_vendas(vendas_df, clientes_clean, produtos_clean, clock)
    /\ pc' = "logistica"
    /\ UNCHANGED <<rawVars, clientes_clean, produtos_clean, logistica_clean,
                   corrections_log, clock, runs, alertVars, sevVars>>

\* clean_vendas reads the two cleaned tables it is handed (their identifier columns)
\* and assigns to neither.  A cleaned table has the columns of the table it was
\* copied from.
clean_all_vendas ==
    LET exception == clean_vendas_raises(Columns(vendas_df, VendasColumns),
                                         read_csv_dtypes(vendas_df, {"status"}),
                                         Columns(clientes_df, ClientesColumns),
                                         Columns(produtos_df, ProdutosColumns))
    IN
    /\ pc = "vendas"
    /\ IF exception # "None"
       THEN /\ pc' = ErrorIn(exception, "vendas")
            /\ UNCHANGED <<vendas_df, vendas_clean, corrections_log>>
       ELSE /\ LET df_clean == clean_vendas(vendas_df, clientes_clean, produtos_clean, clock)
               IN  /\ vendas_clean' = df_clean
                   /\ vendas_df' = CallerTableAfter(vendas_df, df_clean)
                   /\ corrections_log' = LogAfter(corrections_log, vendas_df, df_clean)
            /\ pc' = "logistica"
    /\ UNCHANGED <<clientes_df, produtos_df, logistica_df,
                   clientes_clean, produtos_clean, logistica_clean,
                   clock, runs, alertVars, sevVars>>

clean_all_logistica ==
    LET exception == clean_logistica_raises(
                         Columns(logistica_df, LogisticaColumns),
                         read_csv_dtypes(logistica_df, {"status_entrega", "transportadora"}),
                         Columns(vendas_df, VendasColumns))
    IN
    /\ pc = "logistica"
    /\ IF exception # "None"
       THEN /\ pc' = ErrorIn(exception, "logistica")
            /\ UNCHANGED <<logistica_df, logistica_clean, corrections_log>>
       ELSE /\ logistica_clean' = clean_logistica(logistica_df, vendas_clean)
            /\ logistica_df' = CallerTableAfter(logistica_df,
                                                clean_logistica(logistica_df, vendas_clean))
            /\ corrections_log' = LogAfter(corrections_log, logistica_df,
                                           clean_logistica(logistica_df, vendas_clean))
            /\ pc' = "done"
    /\ UNCHANGED <<clientes_df, produtos_df, vendas_df,
                   clientes_clean, produtos_clean, vendas_clean,
                   clock, runs, alertVars, sevVars>>

\* cleaner.log_correction(...) called by the holder of the DataCleaner, before, between
\* or after its cleanings: the log grows by one record and nothing else changes.
log_correction_call(dataset, record_id, field, old_value, new_value, reason) ==
    /\ Len(corrections_log) < MaxLog
    /\ corrections_log' = log_correction(corrections_log, clock, dataset, record_id,
                                         field, old_value, new_value, reason)
    /\ UNCHANGED <<rawVars, clientes_clean, produtos_clean, vendas_clean, logistica_clean,
                   pc, clock, runs, alertVars, sevVars>>

\* clean_all has returned and is called again, some time later, with the four tables
\* given: on the same DataCleaner, or on a new one, whose log is empty.
clean_all_again(tables, later, on_new_cleaner) ==
    /\ pc = "done"
    /\ Len(runs) + 1 < MaxRuns
    /\ later >= clock
    /\ runs' = Append(runs, [raw |-> <<clientes_df, produtos_df, vendas_df, logistica_df>>,
                             clean |-> <<clientes_clean, produtos_clean,
                                         vendas_clean, logistica_clean>>,
                             log |-> corrections_log,
                             clock |-> clock])
    /\ clientes_df' = tables[1]
    /\ produtos_df' = tables[2]
    /\ vendas_df' = tables[3]
    /\ logistica_df' = tables[4]
    /\ clientes_clean' = <<>>
    /\ produtos_clean' = <<>>
    /\ vendas_clean' = <<>>
    /\ logistica_clean' = <<>>
    /\ corrections_log' = IF on_new_cleaner THEN <<>> ELSE corrections_log
    /\ clock' = later
    /\ pc' = "clientes"
    /\ UNCHANGED <<alertVars, sevVars>>

\* clean_clientes has returned and the caller hands the table it returned to
\* clean_clientes again, some time later, on the same DataCleaner.  The frame it
\* returned has every column it reads, no identifier twice and text columns of dtype
\* object (astype(str) and the .str methods return object columns), so this call
\* raises nothing.
clean_clientes_again(later) ==
    LET dtypes == [col \in {"telefone", "email", "estado", "cidade", "nome"} |-> "object"]
        df_clean == clean_clientes(clientes_clean, dtypes, later)
    IN
    /\ pc = "produtos"
    /\ Len(runs) + 1 < MaxRuns
    /\ later >= clock
    /\ runs' = Append(runs, [raw |-> <<clientes_df, produtos_df, vendas_df, logistica_df>>,
                             clean |-> <<clientes_clean, produtos_clean,
                                         vendas_clean, logistica_clean>>,
                             log |-> corrections_log,
                             clock |-> clock])
    /\ clientes_clean' = df_clean
    /\ clientes_df' = CallerTableAfter(clientes_clean, df_clean)
    /\ corrections_log' = LogAfter(corrections_log, clientes_clean, df_clean)
    /\ clock' = later
    /\ UNCHANGED <<produtos_df, vendas_df, logistica_df,
                   produtos_clean, vendas_clean, logistica_clean,
                   pc, alertVars, sevVars>>

-----------------------------------------------------------------------------
(* Input tables of clean_all *)

Ids == 1..MaxId

\* Every table of at most MaxRows rows drawn from Rows
Tables(Rows) == UNION {[1..n -> Rows] : n \in 0..MaxRows}

ClienteRow(id, cadastro) ==
    [id_cliente |-> id, nome |-> "Ana", email |-> "ana@x.com",
     telefone |-> "1199990000", cidade |-> "Sao Paulo", estado |-> "SP",
     data_cadastro |-> cadastro, data_nascimento |-> 1990]

ProdutoRow(id, preco) ==
    [id_produto |-> id, nome_produto |-> "Mouse", categoria |-> "Perifericos",
     preco |-> preco, estoque |-> 3, ativo |-> "True", data_criacao |-> 1]

VendaRow(id, cliente, produto, quantidade, total, status) ==
    [id_venda |-> id, id_cliente |-> cliente, id_produto |-> produto,
     quantidade |-> quantidade, valor_unitario |-> 200, valor_total |-> total,
     data_venda |-> 1, status |-> status]

LogisticaRow(id, venda) ==
    [id_entrega |-> id, id_venda |-> venda, transportadora |-> "Correios",
     data_envio |-> 2, data_entrega_prevista |-> 4, data_entrega_real |-> 3,
     status_entrega |-> "Entregue"]

\* Customers with any identifiers and registration dates against sales that name
\* any customer
ClientesInputs ==
    /\ clientes_df \in Tables({ClienteRow(id, d) : id \in Ids, d \in {1, 2}})
    /\ produtos_df = <<ProdutoRow(1, 500)>>
    /\ vendas_df \in Tables({VendaRow(v, c, 1, 5, 1000, "Concluida") : v \in Ids, c \in Ids})
    /\ logistica_df = <<LogisticaRow(1, 1), LogisticaRow(2, 2)>>

\* Products with any identifiers and prices against sales that name any product
ProdutosInputs ==
    /\ clientes_df = <<ClienteRow(1, 1)>>
    /\ produtos_df \in Tables({ProdutoRow(id, p) : id \in Ids, p \in {-500, 500}})
    /\ vendas_df \in Tables({VendaRow(v, 1, p, 5, 1000, "Concluida") : v \in Ids, p \in Ids})
    /\ logistica_df = <<LogisticaRow(1, 1), LogisticaRow(2, 2)>>

\* Shipments that name any sale against sales with any identifiers, whose customer
\* exists or not
LogisticaInputs ==
    /\ clientes_df \in {<<>>, <<ClienteRow(1, 1)>>}
    /\ produtos_df = <<ProdutoRow(1, 500)>>
    /\ vendas_df \in Tables({VendaRow(v, 1, 1, 5, 1000, "Concluida") : v \in Ids})
    /\ logistica_df \in Tables({LogisticaRow(e, v) : e \in Ids, v \in Ids})

\* Sales of existing customers and products with any quantity, total and status,
\* the i-th sale with identifier i
VendasInputs ==
    /\ clientes_df = <<ClienteRow(1, 1)>>
    /\ produtos_df = <<ProdutoRow(1, 500)>>
    /\ \E n \in 0..MaxRows :
       \E q \in [1..n -> {-2, 0, 5}], t \in [1..n -> {0, 401, 900, 1000, 1001}],
          s \in [1..n -> {"Concluida", "Cancelada", "cancelada"}] :
           vendas_df = [i \in 1..n |-> VendaRow(i, 1, 1, q[i], t[i], s[i])]
    /\ logistica_df = <<LogisticaRow(1, 1), LogisticaRow(2, 2)>>

\* Sales of one unit at 1.00 or 2.00 whose total is the price, one cent under or over
\* it, or missing, the i-th sale with identifier i
ToleranceInputs ==
    /\ clientes_df = <<ClienteRow(1, 1)>>
    /\ produtos_df = <<ProdutoRow(1, 500)>>
    /\ \E n \in 0..MaxRows :
       \E u \in [1..n -> {100, 200}], off \in [1..n -> {-1, 0, 1}], missing \in [1..n -> BOOLEAN] :
           vendas_df = [i \in 1..n |->
                           [VendaRow(i, 1, 1, 1, u[i] + off[i], "Concluida")
                               EXCEPT !.valor_unitario = u[i],
                                      !.valor_total = IF missing[i] THEN NaN ELSE @]]
    /\ logistica_df = <<LogisticaRow(1, 1)>>

\* Tables of repeated runs: a customer born before or after the current year, a sale
\* dated before or after the first run, with a total that is right or wrong.
RunsTables ==
    {<<<<[ClienteRow(1, 1) EXCEPT !.data_nascimento = b]>>,
       <<ProdutoRow(1, 500)>>,
       <<[VendaRow(1, 1, 1, 5, t, "Concluida") EXCEPT !.data_venda = d]>>,
       <<LogisticaRow(1, 1)>>>> :
        b \in {1990, 2027}, d \in {1, 6}, t \in {900, 1000}}

\* Customers told apart by their names, with any identifiers and registration dates,
\* a date that does not parse among them
DedupInputs ==
    /\ clientes_df \in Tables({[ClienteRow(id, d) EXCEPT !.nome = n] :
                                   id \in Ids, d \in {BadDate, 1, 2}, n \in {"Ana", "Bia"}})
    /\ produtos_df = <<ProdutoRow(1, 500)>>
    /\ vendas_df = <<VendaRow(1, 1, 1, 5, 1000, "Concluida")>>
    /\ logistica_df = <<LogisticaRow(1, 1)>>

\* A register longer than the stretch the sort handles by insertion: customers
\* 1 to SmallQuicksort registered on day 1, then Ana and Bia under one identifier,
\* both registered on the day given
LongClientes(day) ==
    [i \in 1..(SmallQuicksort + 2) |->
        IF i <= SmallQuicksort THEN ClienteRow(i, 1)
        ELSE IF i = SmallQuicksort + 1
             THEN [ClienteRow(SmallQuicksort + 1, day) EXCEPT !.nome = "Ana"]
             ELSE [ClienteRow(SmallQuicksort + 1, day) EXCEPT !.nome = "Bia"]]

LongInputs ==
    /\ clientes_df \in {LongClientes(1), LongClientes(2)}
    /\ produtos_df = <<ProdutoRow(1, 500)>>
    /\ vendas_df = <<VendaRow(1, 1, 1, 5, 1000, "Concluida")>>
    /\ logistica_df = <<LogisticaRow(1, 1)>>

\* Customer rows in need of every correction of clean_clientes: as they should be;
\* with no name, text to trim and recase, a telephone with punctuation and a birth
\* date after this year; with a blank name, an address that is no email, no
\* telephone and a birth date before 1900; with the texts missing and a birth date
\* that does not parse
DirtyClientes(id, cadastro) ==
    {ClienteRow(id, cadastro),
     [ClienteRow(id, cadastro) EXCEPT !.nome = NaN, !.email = " Ana@X.com ",
                                      !.telefone = "(11) 9999-0000", !.cidade = " sao paulo ",
                                      !.estado = " sp ", !.data_nascimento = CurrentYear + 1],
     [ClienteRow(id, cadastro) EXCEPT !.nome = "  ", !.email = "ana.x.com",
                                      !.telefone = NaN, !.cidade = "SAO PAULO",
                                      !.estado = "sp", !.data_nascimento = MinBirthYear - 100],
     [ClienteRow(id, cadastro) EXCEPT !.email = NaN, !.cidade = NaN, !.estado = NaN,
                                      !.data_nascimento = BadDate]}

IdemInputs ==
    /\ clientes_df \in Tables(UNION {DirtyClientes(id, d) : id \in Ids, d \in {BadDate, 1, 2}})
    /\ produtos_df = <<ProdutoRow(1, 500)>>
    /\ vendas_df = <<VendaRow(1, 1, 1, 5, 1000, "Concluida")>>
    /\ logistica_df = <<LogisticaRow(1, 1)>>

\* A row read from a file that has no column col
DropColumn(r, col) == [f \in DOMAIN r \ {col} |-> r[f]]

\* Tables with a column missing, tables with a text column that has no text in any
\* row, and tables without rows, against sales and shipments that name customer 1,
\* product 1 and the sales 1 and 2
FailInputs ==
    /\ clientes_df \in {<<>>, <<ClienteRow(1, 1)>>,
                         <<DropColumn(ClienteRow(1, 1), "id_cliente")>>,
                         <<DropColumn(ClienteRow(1, 1), "data_cadastro")>>,
                         <<[ClienteRow(1, 1) EXCEPT !.nome = NaN]>>}
    /\ produtos_df \in {<<>>, <<ProdutoRow(1, 500)>>,
                         <<DropColumn(ProdutoRow(1, 500), "id_produto")>>,
                         <<DropColumn(ProdutoRow(1, 500), "preco")>>,
                         <<[ProdutoRow(1, 500) EXCEPT !.categoria = NaN]>>}
    /\ vendas_df \in Tables({VendaRow(v, 1, 1, 5, 1000, "Concluida") : v \in Ids})
                      \cup {<<DropColumn(VendaRow(1, 1, 1, 5, 1000, "Concluida"), "id_venda")>>,
                            <<VendaRow(1, 1, 1, 5, 1000, NaN)>>}
    /\ logistica_df \in {<<LogisticaRow(1, 1)>>,
                          <<LogisticaRow(1, 1), LogisticaRow(2, 2)>>,
                          <<DropColumn(LogisticaRow(1, 1), "id_entrega")>>,
                          <<DropColumn(LogisticaRow(1, 1), "id_venda")>>,
                          <<[LogisticaRow(1, 1) EXCEPT !.transportadora = NaN]>>}

\* Shipments that name any sale, the i-th with identifier i, against sales with any
\* identifiers; d is the ship date and the actual-delivery date: delivered after it
\* was sent, delivered before it was sent, not delivered yet
FlagInputs ==
    /\ clientes_df = <<ClienteRow(1, 1)>>
    /\ produtos_df = <<ProdutoRow(1, 500)>>
    /\ vendas_df \in Tables({VendaRow(v, 1, 1, 5, 1000, "Concluida") : v \in Ids})
    /\ \E n \in 0..MaxRows :
       \E v \in [1..n -> Ids], d \in [1..n -> {<<2, 3>>, <<3, 2>>, <<2, NaT>>}] :
           logistica_df = [i \in 1..n |->
                              [LogisticaRow(i, v[i]) EXCEPT !.data_envio = d[i][1],
                                                            !.data_entrega_real = d[i][2]]]

\* Products with any price and stock, the i-th with identifier i
StockInputs ==
    /\ clientes_df = <<ClienteRow(1, 1)>>
    /\ \E n \in 0..MaxRows :
       \E p \in [1..n -> {-500, 0, 500}], e \in [1..n -> {-3, 0, 3}] :
           produtos_df = [i \in 1..n |->
                             [ProdutoRow(i, p[i]) EXCEPT !.estoque = e[i]]]
    /\ vendas_df = <<VendaRow(1, 1, 1, 5, 1000, "Concluida")>>
    /\ logistica_df = <<LogisticaRow(1, 1)>>

-----------------------------------------------------------------------------
(* Inputs of the alert engine *)

Affecteds == {0, 1, 2, 3, 5, 10}
Totals == {0, 100, 160}

\* Percentages handed to determine_severity directly: every num/den with a small
\* denominator from -1 % to MaxPct %, the thresholds 1, 3, 5, 10 among them.
Percentages ==
    UNION {{[num |-> n, den |-> d] : n \in (0 - d)..(MaxPct * d)} : d \in 1..MaxDen}

CheckpointNames == <<"checkpoint_clientes_lab", "checkpoint_vendas">>

\* The per-check entries, in dictionary order: a prefix of CheckpointNames, each
\* entry with its success flag.
EntrySeqs ==
    UNION {{[i \in 1..n |-> [name |-> CheckpointNames[i], success |-> f[i]]]
            : f \in [1..n -> BOOLEAN]} : n \in 0..Len(CheckpointNames)}

\* failed and total of a summary: 1/200 is below 1 %, 2/200 Low, 8/200 Medium,
\* 12/200 High
SummaryCounts == {<<2, 0>>, <<1, 200>>, <<2, 200>>, <<8, 200>>, <<12, 200>>}

\* Summaries whose counts and success rate need not agree; has_rate says whether the
\* summary has a success_rate at all.
Summaries ==
    {[total |-> c[2], failed |-> c[1], has_rate |-> TRUE, success_rate |-> r] :
        c \in SummaryCounts, r \in {50, 100}}
    \cup {[total |-> c[2], failed |-> c[1], has_rate |-> FALSE, success_rate |-> 100] :
        c \in SummaryCounts}

\* The summary a checker computes from its own entries
SummaryOf(entries) ==
    LET total == Len(entries)
        failed == Len(SelectSeq(entries, LAMBDA e : ~e.success))
    IN  [total |-> total, failed |-> failed, has_rate |-> TRUE,
         success_rate |-> IF total > 0 THEN ((total - failed) * 100) \div total ELSE 0]

\* Reports under either key with their own summary, and reports without entries
\* with any summary
Results ==
    {[key |-> k, entries |-> e, summary |-> SummaryOf(e)] :
        k \in {"checks", "checkpoints"}, e \in EntrySeqs}
    \cup [key : {"checkpoints"}, entries : {<<>>}, summary : Summaries]

\* A few of those reports, for the engine under all of its operations: the first
\* check alone, failed or not, with its own summary, and no check with a summary
\* below 1 %, Low or High
FewResults ==
    {r \in Results :
        /\ r.key = "checkpoints"
        /\ Len(r.entries) <= 1
        /\ r.summary.has_rate
        /\ r.entries = <<>> => r.summary.success_rate < 100
        /\ r.summary.failed \in {0, 1, 2, 12}}

NoCall == [op |-> "none", raised |-> FALSE, result |-> <<>>]

-----------------------------------------------------------------------------
(* Specifications *)

AlertInit ==
    /\ alerts = <<>>
    /\ escalations_file = <<>>
    /\ escalated = <<>>
    /\ ret = NoCall

\* A DataCleaner as constructed, and no table produced yet
CleanerInit ==
    /\ corrections_log = <<>>
    /\ clientes_clean = <<>>
    /\ produtos_clean = <<>>
    /\ vendas_clean = <<>>
    /\ logistica_clean = <<>>

\* No clean_all under way
CleanIdle ==
    /\ CleanerInit
    /\ clock = Now
    /\ runs = <<>>
    /\ clientes_df = <<>>
    /\ produtos_df = <<>>
    /\ vendas_df = <<>>
    /\ logistica_df = <<>>
    /\ pc = "done"

SevIdle ==
    /\ sev_args = <<Percentage(0, 0), Percentage(0, 0)>>
    /\ sev_rets = <<>>

\* determine_severity applied to each of the two percentages
determine_severity_calls ==
    /\ sev_rets = <<>>
    /\ sev_rets' = <<determine_severity(sev_args[1]), determine_severity(sev_args[2])>>
    /\ UNCHANGED <<sev_args, alertVars, cleanVars>>

SevInit ==
    /\ AlertInit
    /\ CleanIdle
    /\ sev_args \in Percentages \X Percentages
    /\ sev_rets = <<>>

SevNext == determine_severity_calls

SpecSeverity == SevInit /\ [][SevNext]_vars

\* The engine under direct calls of create_alert and escalate_alert
CallsInit == AlertInit /\ SevIdle /\ CleanIdle

CallsNext ==
    \/ \E d \in {"vendas"}, i \in {"Duplicatas"}, a \in Affecteds, t \in Totals :
           create_alert(d, i, a, t, "{}")
    \/ \E i \in 1..MaxAlerts : escalate_alert(i)

SpecCalls == CallsInit /\ [][CallsNext]_vars

\* clean_all on the caller's four tables
CleanInit ==
    /\ AlertInit
    /\ SevIdle
    /\ CleanerInit
    /\ pc = "clientes"
    /\ clock = Now
    /\ runs = <<>>
    /\ \/ ClientesInputs
       \/ ProdutosInputs
       \/ LogisticaInputs
       \/ VendasInputs
       \/ ToleranceInputs

CleanNext ==
    \/ clean_all_clientes
    \/ clean_all_produtos
    \/ clean_all_vendas
    \/ clean_all_logistica

SpecClean == CleanInit /\ [][CleanNext]_vars

\* clean_all on registers of customers with shared identifiers
DedupInit ==
    /\ AlertInit
    /\ SevIdle
    /\ CleanerInit
    /\ pc = "clientes"
    /\ clock = Now
    /\ runs = <<>>
    /\ \/ DedupInputs
       \/ LongInputs

SpecDedup == DedupInit /\ [][CleanNext]_vars

\* clean_all called again and again, on tables of RunsTables
RunsInit ==
    /\ AlertInit
    /\ SevIdle
    /\ CleanerInit
    /\ pc = "clientes"
    /\ clock = Now
    /\ runs = <<>>
    /\ \E tables \in RunsTables :
           /\ clientes_df = tables[1]
           /\ produtos_df = tables[2]
           /\ vendas_df = tables[3]
           /\ logistica_df = tables[4]

RunsNext ==
    \/ clean_all_clientes
    \/ clean_all_produtos
    \/ clean_all_vendas
    \/ clean_all_logistica
    \/ \E tables \in RunsTables, later \in Now..MaxClock, on_new_cleaner \in BOOLEAN :
           clean_all_again(tables, later, on_new_cleaner)

SpecRuns == RunsInit /\ [][RunsNext]_vars

\* clean_clientes, and clean_clientes again on what it returned
IdemInit ==
    /\ AlertInit
    /\ SevIdle
    /\ CleanerInit
    /\ pc = "clientes"
    /\ clock = Now
    /\ runs = <<>>
    /\ IdemInputs

IdemNext ==
    \/ clean_all_clientes
    \/ \E later \in Now..MaxClock : clean_clientes_again(later)

SpecIdem == IdemInit /\ [][IdemNext]_vars

\* clean_all on sales of 5 at 2.00 whose total is 9.00 or 10.00, on a DataCleaner whose
\* holder also logs corrections of its own: of a sale's total, or of a customer's city
LogInit ==
    /\ AlertInit
    /\ SevIdle
    /\ CleanerInit
    /\ pc = "clientes"
    /\ clock = Now
    /\ runs = <<>>
    /\ clientes_df = <<ClienteRow(1, 1)>>
    /\ produtos_df = <<ProdutoRow(1, 500)>>
    /\ vendas_df \in Tables({VendaRow(v, 1, 1, 5, t, "Concluida") :
                                 v \in Ids, t \in {900, 1000}})
    /\ logistica_df = <<LogisticaRow(1, 1)>>

LogNext ==
    \/ clean_all_clientes
    \/ clean_all_produtos
    \/ clean_all_vendas
    \/ clean_all_logistica
    \/ \E id \in Ids :
           log_correction_call("vendas", id, "valor_total", 900, 1000,
                               "Valor total recalculado")
    \/ log_correction_call("clientes", 1, "cidade", " sao paulo ", "Sao Paulo",
                           "Cidade padronizada")

SpecLog == LogInit /\ [][LogNext]_vars

\* clean_all on tables with a column missing
FailInit ==
    /\ AlertInit
    /\ SevIdle
    /\ CleanerInit
    /\ pc = "clientes"
    /\ clock = Now
    /\ runs = <<>>
    /\ FailInputs

SpecFail == FailInit /\ [][CleanNext]_vars

\* clean_all on products of any price and stock, and on shipments of any dates
RowsInit ==
    /\ AlertInit
    /\ SevIdle
    /\ CleanerInit
    /\ pc = "clientes"
    /\ clock = Now
    /\ runs = <<>>
    /\ \/ FlagInputs
       \/ StockInputs

SpecRows == RowsInit /\ [][CleanNext]_vars

\* A new AlertSystem, before any call
Init == AlertInit /\ SevIdle /\ CleanIdle

\* The engine under analyze_quality_results and process_alerts, called any number
\* of times on one AlertSystem
ProcessNext ==
    \/ \E r \in Results : analyze_quality_results(r)
    \/ \E r \in Results : process_alerts(r)

SpecProcess == Init /\ [][ProcessNext]_vars

\* The engine under all four of its operations
Next ==
    \/ \E a \in {0, 2, 5}, t \in {0, 100} :
           create_alert("vendas", "Duplicatas", a, t, "{}")
    \/ \E i \in 1..MaxAlerts : escalate_alert(i)
    \/ \E r \in FewResults : analyze_quality_results(r)
    \/ \E r \in FewResults : process_alerts(r)

Spec == Init /\ [][Next]_vars

-----------------------------------------------------------------------------
(* Properties of the cleaning pipeline *)

\* No two rows of df agree on col
UniqueColumn(df, col) ==
    \A i, j \in 1..Len(df) : i # j => df[i][col] # df[j][col]

\* C1: after clean_vendas(sales, cleaned customers, cleaned products) every row of the
\* returned sales table has a customer id that occurs in the cleaned customers and a
\* product id that occurs in the cleaned products.
C1_SalesReferToCustomersAndProducts ==
    pc \in {"logistica", "done"} =>
        \A i \in 1..Len(vendas_clean) :
            /\ \E c \in 1..Len(clientes_clean) :
                   clientes_clean[c].id_cliente = vendas_clean[i].id_cliente
            /\ \E p \in 1..Len(produtos_clean) :
                   produtos_clean[p].id_produto = vendas_clean[i].id_produto

C1_Witness ==
    /\ pc = "logistica"
    /\ Len(vendas_df) = 2
    /\ Len(vendas_clean) = 1
    /\ vendas_df[1].id_produto = 2
    /\ vendas_clean[1].id_produto = 1
    /\ Len(produtos_clean) = 2

\* C2: after clean_logistica(shipments, cleaned sales) every row of the returned
\* shipment table has a sale id that occurs in the cleaned sales; in clean_all the
\* cleaned sales are the ones the same run returned.
C2_ShipmentsReferToSales ==
    pc = "done" =>
        \A i \in 1..Len(logistica_clean) :
            \E v \in 1..Len(vendas_clean) :
                vendas_clean[v].id_venda = logistica_clean[i].id_venda

C2_Witness ==
    /\ pc = "done"
    /\ Len(logistica_df) = 2
    /\ Len(logistica_clean) = 1
    /\ logistica_df[1].id_venda # logistica_clean[1].id_venda
    /\ Len(vendas_clean) = 1

\* C3: in each of the four tables clean_all returns, the identifier column
\* (id_cliente, id_produto, id_venda, id_entrega) has no duplicate values, also when
\* two input rows share an identifier and differ in another field.
C3_IdentifiersUnique ==
    pc = "done" =>
        /\ UniqueColumn(clientes_clean, "id_cliente")
        /\ UniqueColumn(produtos_clean, "id_produto")
        /\ UniqueColumn(vendas_clean, "id_venda")
        /\ UniqueColumn(logistica_clean, "id_entrega")

\* C4: every row clean_vendas returns has a total within one cent of quantity times
\* unit price; a total that was off by more than one cent has been replaced by the
\* product taken with the corrected quantity, and a total within tolerance, one that
\* is off by one cent or less, is kept.  (Rows are matched by position, in runs that
\* drop no sale; money is in cents.)
C4_TotalWithinOneCent ==
    pc \in {"logistica", "done"} =>
        /\ \A i \in 1..Len(vendas_clean) :
               LET r == vendas_clean[i]
               IN  /\ ~isna(r.valor_total)
                   /\ Abs(r.valor_total - r.quantidade * r.valor_unitario) <= Tolerance
        /\ Len(vendas_clean) = Len(vendas_df) =>
               \A i \in 1..Len(vendas_df) :
                   LET in == vendas_df[i]
                       out == vendas_clean[i]
                       product == out.quantidade * in.valor_unitario
                   IN  ~isna(in.valor_total) =>
                           /\ Abs(in.valor_total - product) > Tolerance =>
                                  out.valor_total = product
                           /\ Abs(in.valor_total - product) <= Tolerance =>
                                  out.valor_total = in.valor_total

-----------------------------------------------------------------------------
(* Properties of the alert engine *)

\* None < Low < Medium < High < Critical
SeverityRank(severity) ==
    CASE severity = NoSeverity -> 0
      [] severity = LOW -> 1
      [] severity = MEDIUM -> 2
      [] severity = HIGH -> 3
      [] severity = CRITICAL -> 4

\* The severity the percentage table assigns to num/den (den > 0), range by range
TableSeverity(num, den) ==
    CASE num < 1 * den -> NoSeverity
      [] 1 * den <= num /\ num < 3 * den -> LOW
      [] 3 * den <= num /\ num < 5 * den -> MEDIUM
      [] 5 * den <= num /\ num < 10 * den -> HIGH
      [] 10 * den <= num -> CRITICAL

\* C5: determine_severity(p) is no severity for p < 1, Low for 1 <= p < 3, Medium for
\* 3 <= p < 5, High for 5 <= p < 10 and Critical for p >= 10; exactly 1 gives Low and
\* exactly 10 gives Critical.
C5_SeverityTable ==
    sev_rets # <<>> =>
        \A k \in 1..2 :
            /\ sev_rets[k] = TableSeverity(sev_args[k].num, sev_args[k].den)
            /\ (sev_args[k].num = 1 * sev_args[k].den => sev_rets[k] = LOW)
            /\ (sev_args[k].num = 10 * sev_args[k].den => sev_rets[k] = CRITICAL)

C5_Witness ==
    /\ sev_rets # <<>>
    /\ sev_args[1] = [num |-> 1, den |-> 1] /\ sev_rets[1] = LOW
    /\ sev_args[2] = [num |-> 10, den |-> 1] /\ sev_rets[2] = CRITICAL

\* C6: severity is monotone in the percentage: p1 < p2 implies
\* determine_severity(p1) <= determine_severity(p2) in the order None < Low < Medium <
\* High < Critical.
C6_SeverityMonotone ==
    (sev_rets # <<>> /\ sev_args[1].num * sev_args[2].den < sev_args[2].num * sev_args[1].den)
        => SeverityRank(sev_rets[1]) <= SeverityRank(sev_rets[2])

C6_Witness ==
    /\ sev_rets = <<MEDIUM, HIGH>>
    /\ sev_args[1].num * sev_args[2].den < sev_args[2].num * sev_args[1].den

\* C7: create_alert with affected/total*100 < 1, or with total = 0 for any affected,
\* returns no alert, does not raise, and leaves the engine's alert list unchanged.
C7_NoAlertBelowOnePercent ==
    [][(/\ ret'.op = "create_alert"
        /\ \/ ret'.total = 0
           \/ ret'.total > 0 /\ ret'.affected * 100 < ret'.total)
       => (/\ ret'.result = <<>>
           /\ ~ret'.raised
           /\ alerts' = alerts)]_vars

C7_Witness ==
    /\ ret.op = "create_alert"
    /\ ret.total = 0 /\ ret.affected > 0
    /\ ret.result = <<>>
    /\ Len(alerts) = 1

\* C8: create_alert with total > 0 and affected/total*100 >= 1 appends exactly one
\* alert to the end of the engine's list and returns it; the alert is open, carries
\* the given dataset, issue and counts, and the severity the table assigns.
C8_AlertAppended ==
    [][(/\ ret'.op = "create_alert"
        /\ ret'.total > 0
        /\ ret'.affected * 100 >= ret'.total)
       => (/\ Len(alerts') = Len(alerts) + 1
           /\ SubSeq(alerts', 1, Len(alerts)) = alerts
           /\ ret'.result = <<alerts'[Len(alerts')]>>
           /\ LET a == alerts'[Len(alerts')]
              IN  /\ a.status = "ABERTO"
                  /\ a.dataset = ret'.dataset
                  /\ a.issue = ret'.issue
                  /\ a.affected_records = ret'.affected
                  /\ a.total_records = ret'.total
                  /\ a.severity = TableSeverity(ret'.affected * 100, ret'.total)
                  /\ (ret'.affected = 2 /\ ret'.total = 100 => a.severity = LOW)
                  /\ (ret'.affected = 10 /\ ret'.total = 100 => a.severity = CRITICAL))]_vars

C8_Witness ==
    /\ ret.op = "create_alert"
    /\ ret.affected = 2 /\ ret.total = 100
    /\ Len(alerts) = 2
    /\ alerts[1].severity = CRITICAL
    /\ alerts[2].severity = LOW
    /\ ret.result = <<alerts[2]>>

\* C9: escalate_alert returns an escalation whose recipients and SLA hours follow
\* from the alert's severity alone (Critical: CDO, Data Owner, Data Steward and 4;
\* High: Data Owner, Data Steward and 24; Medium: Data Steward and 48; Low: Data
\* Custodian and 168) and which carries a snapshot of the alert's fields.
C9_EscalationBySeverity ==
    ret.op = "escalate_alert" =>
        LET a == ret.alert
            e == ret.result[1]
        IN  /\ Len(ret.result) = 1
            /\ a.severity = CRITICAL =>
                   e.recipients = <<"CDO", "Data Owner", "Data Steward">> /\ e.sla_hours = 4
            /\ a.severity = HIGH =>
                   e.recipients = <<"Data Owner", "Data Steward">> /\ e.sla_hours = 24
            /\ a.severity = MEDIUM =>
                   e.recipients = <<"Data Steward">> /\ e.sla_hours = 48
            /\ a.severity = LOW =>
                   e.recipients = <<"Data Custodian">> /\ e.sla_hours = 168
            /\ e.alert.dataset = a.dataset
            /\ e.alert.issue = a.issue
            /\ e.alert.severity = a.severity
            /\ e.alert.affected_records = a.affected_records
            /\ e.alert.total_records = a.total_records
            /\ e.alert.status = a.status
            /\ e.alert.details = a.details
            \* the percentage of the snapshot is the alert's, rounded to two decimals
            /\ 2 * (e.alert.percentage * a.total_records - a.affected_records * 10000)
                   <= a.total_records
            /\ 2 * (a.affected_records * 10000 - e.alert.percentage * a.total_records)
                   <= a.total_records

C9_Witness ==
    /\ ret.op = "escalate_alert"
    /\ ret.alert.severity = CRITICAL
    /\ ret.result[1].sla_hours = 4
    /\ escalations_file = <<ret.result[1]>>

\* C10: escalate_alert does not mutate the alert: every field of the alert, its status
\* and severity included, and the engine's alert list are the same after the call as
\* before.
C10_EscalateLeavesAlert ==
    [][ret'.op = "escalate_alert"
       => (/\ alerts' = alerts
           /\ alerts'[ret'.index] = ret'.alert)]_vars

C10_Witness ==
    /\ ret.op = "escalate_alert"
    /\ ret.alert.severity = HIGH
    /\ alerts[ret.index] = ret.alert
    /\ alerts[ret.index].status = "ABERTO"
    /\ Len(escalations_file) = 1

-----------------------------------------------------------------------------
(* Properties of analyze_quality_results and process_alerts *)

\* The alerts a call appended: the part of the list after beyond the length of before
Added(before, after) == SubSeq(after, Len(before) + 1, Len(after))

PerCheckAlerts(al) == SelectSeq(al, LAMBDA a : a.issue = "Checkpoint falhou completamente")

AggregateAlerts(al) == SelectSeq(al, LAMBDA a : a.dataset = "GERAL")

FailedEntries(results) == SelectSeq(results.entries, LAMBDA e : ~e.success)

\* Every per-check alert of al is the binary defect 1 of 1, hence Critical
BinaryDefects(al) ==
    \A k \in 1..Len(al) :
        /\ al[k].affected_records = 1
        /\ al[k].total_records = 1
        /\ al[k].severity = "CRITICAL"

C12_OneAlertPerFailedCheck ==
    [][(ret'.op = "analyze_quality_results" /\ ret'.results.key = "checks")
       => (/\ Len(PerCheckAlerts(Added(alerts, alerts'))) = Len(FailedEntries(ret'.results))
           /\ BinaryDefects(PerCheckAlerts(Added(alerts, alerts'))))]_vars

\* C12 (amended): analyze_quality_results, given a report of the shape
\* {checkpoints: {name -> {success, error?}}, summary}, creates exactly one alert for
\* each check whose success is false (1 of 1, Critical) and none for a successful
\* check; entries under another key, checks included, are not read and create no alert.
C12_OneAlertPerFailedCheckpoint ==
    [][ret'.op = "analyze_quality_results"
       => (/\ ret'.results.key = "checkpoints" =>
                  Len(PerCheckAlerts(Added(alerts, alerts'))) = Len(FailedEntries(ret'.results))
           /\ ret'.results.key # "checkpoints" =>
                  PerCheckAlerts(Added(alerts, alerts')) = <<>>
           /\ BinaryDefects(PerCheckAlerts(Added(alerts, alerts'))))]_vars

C12_Witness ==
    /\ ret.op = "analyze_quality_results"
    /\ ret.before = 0
    /\ ret.results.key = "checkpoints"
    /\ Len(ret.results.entries) = 2
    /\ ret.results.entries[1].success
    /\ ~ret.results.entries[2].success
    /\ Len(PerCheckAlerts(alerts)) = 1
    /\ PerCheckAlerts(alerts)[1].dataset = "vendas"
    /\ PerCheckAlerts(alerts)[1].severity = "CRITICAL"

\* The aggregate alert the percentage table asks for: one alert with the summary's
\* counts when failed/total*100 >= 1, none below
AggregateByTable(al, summary) ==
    IF summary.total > 0 /\ summary.failed * 100 >= summary.total
    THEN /\ Len(al) = 1
         /\ al[1].affected_records = summary.failed
         /\ al[1].total_records = summary.total
         /\ al[1].severity = TableSeverity(summary.failed * 100, summary.total)
    ELSE al = <<>>

\* C13 (as claimed): analyze_quality_results creates, independently of the per-check
\* alerts, exactly one aggregate alert with affected = summary.failed and total =
\* summary.total whenever failed/total*100 >= 1 and none when it is below 1, whatever
\* the summary's success_rate says and whether it is present.
C13_AggregateAlertByCounts ==
    [][ret'.op = "analyze_quality_results"
       => AggregateByTable(AggregateAlerts(Added(alerts, alerts')), ret'.results.summary)]_vars

\* C13 (amended): analyze_quality_results creates, independently of the per-check
\* alerts, exactly one aggregate alert with affected = summary.failed and total =
\* summary.total whenever the summary's success_rate is present and below 100 and
\* failed/total*100 >= 1; it creates no aggregate alert when failed/total*100 < 1, nor
\* when success_rate is 100 or absent (absent counts as 100).
C13_AggregateAlertGatedBySuccessRate ==
    [][ret'.op = "analyze_quality_results"
       => LET summary == ret'.results.summary
              aggregate == AggregateAlerts(Added(alerts, alerts'))
          IN  IF summary.has_rate /\ summary.success_rate < 100
              THEN AggregateByTable(aggregate, summary)
              ELSE aggregate = <<>>]_vars

C13_Witness ==
    /\ ret.op = "analyze_quality_results"
    /\ ret.before = 0
    /\ ret.results.summary.has_rate
    /\ ret.results.summary.success_rate = 50
    /\ ret.results.summary.failed = 1
    /\ ret.results.summary.total = 2
    /\ Len(alerts) = 2
    /\ alerts[1].dataset = "clientes"
    /\ alerts[2].dataset = "GERAL"
    /\ alerts[2].affected_records = 1
    /\ alerts[2].total_records = 2

\* The positions the last process_alerts call escalated
EscalatedByLastCall == SubSeq(escalated, ret.escalated_before + 1, Len(escalated))

\* C14: within one process_alerts run escalate_alert is invoked for an alert if and
\* only if its severity is High or Critical; Low and Medium alerts are never escalated
\* by the whole-pipeline flow.
C14_EscalatesHighAndCriticalOnly ==
    /\ ret.op = "process_alerts" =>
           \A i \in 1..Len(alerts) :
               (\E k \in 1..Len(EscalatedByLastCall) : EscalatedByLastCall[k] = i)
                   <=> alerts[i].severity \in {"HIGH", "CRITICAL"}
    /\ \A k \in 1..Len(escalated) : alerts[escalated[k]].severity \notin {"LOW", "MEDIUM"}
    /\ \A k \in 1..Len(escalations_file) :
           escalations_file[k].alert.severity \notin {"LOW", "MEDIUM"}

C14_Witness ==
    /\ ret.op = "process_alerts"
    /\ ret.before = 1
    /\ Len(alerts) = 2
    /\ alerts[1].severity = "MEDIUM"
    /\ alerts[2].severity = "CRITICAL"
    /\ EscalatedByLastCall = <<2>>
    /\ Len(escalations_file) = 1

\* C15: over any sequence of process_alerts calls on one AlertSystem no alert is
\* escalated twice: one escalation per alert that is High or Critical.
C15_NoAlertEscalatedTwice ==
    \A j, k \in 1..Len(escalated) : j # k => escalated[j] # escalated[k]

\* C16: process_alerts(results) returns exactly the alerts created during that call,
\* in creation order, on a first call and on a later call.
C16_ReturnsAlertsOfThisCall ==
    ret.op = "process_alerts" =>
        /\ ~ret.raised
        /\ ret.result = <<SubSeq(alerts, ret.before + 1, Len(alerts))>>

\* C27: for every well-formed results structure process_alerts analyzes, escalates,
\* builds the summary, persists, and then completes normally by returning the alert
\* list: it does not raise in the persist step.
C27_ProcessAlertsCompletes ==
    ret.op = "process_alerts" =>
        /\ ~ret.raised
        /\ ret.result = <<alerts>>

\* An alert as Alert.__init__ and create_alert leave it: a positive total, the
\* percentage affected/total*100, which is at least 1, and the severity of the table
WellFormedAlert(a) ==
    /\ a.total_records > 0
    /\ a.percentage.den > 0
    /\ a.percentage.num * a.total_records = a.affected_records * 100 * a.percentage.den
    /\ a.percentage.num >= a.percentage.den
    /\ a.severity = TableSeverity(a.percentage.num, a.percentage.den)
    /\ a.severity # NoSeverity

\* C30: after any sequence of create_alert, analyze_quality_results, escalate_alert
\* and process_alerts calls on one AlertSystem, every alert of its list has total > 0,
\* a percentage equal to affected/total*100 that is at least 1, and the severity
\* determine_severity gives that percentage; and the list only grows by appending:
\* each call leaves the alerts that were there, in their order, at the head of the list.
C30_AlertListInvariants ==
    [][/\ \A i \in 1..Len(alerts') : WellFormedAlert(alerts'[i])
       /\ Len(alerts') >= Len(alerts)
       /\ SubSeq(alerts', 1, Len(alerts)) = alerts]_vars

C30_Witness ==
    /\ ret.op = "process_alerts"
    /\ ret.before = 1
    /\ Len(alerts) = 2
    /\ alerts[1].dataset = "vendas"
    /\ alerts[1].affected_records = 5 /\ alerts[1].total_records = 100
    /\ alerts[1].severity = HIGH
    /\ alerts[2].dataset = "GERAL"
    /\ alerts[2].affected_records = 2 /\ alerts[2].total_records = 200
    /\ alerts[2].severity = LOW
    /\ escalated = <<1, 1>>

-----------------------------------------------------------------------------
(* Properties of clean_all as a whole *)

\* The place of a cleaning in clean_all
Stage(p) ==
    CASE p = "clientes" -> 0
      [] p = "produtos" -> 1
      [] p = "vendas" -> 2
      [] p = "logistica" -> 3
      [] p = "done" -> 4

\* The number of rows of df whose column col has a value in ids
CountIn(df, col, ids) == Cardinality({i \in 1..Len(df) : df[i][col] \in ids})

\* C17: clean_all runs the four cleanings strictly in the order Customer, Product,
\* Sale, Shipment: the sale cleaning starts only after the customer and the product
\* cleaning have returned and uses their outputs, and the shipment cleaning starts only
\* after the sale cleaning has returned and uses its output.
C17_DependencyOrder ==
    [][/\ Stage(pc') = Stage(pc) + 1
       /\ pc = "clientes" =>
              produtos_clean = <<>> /\ vendas_clean = <<>> /\ logistica_clean = <<>>
       /\ pc = "produtos" => vendas_clean = <<>> /\ logistica_clean = <<>>
       /\ pc = "vendas" =>
              /\ logistica_clean = <<>>
              \* both upstream cleanings have returned: their tables hold the input's
              \* identifiers, and stay as they are
              /\ ColumnValues(clientes_clean, "id_cliente") = ColumnValues(clientes_df, "id_cliente")
              /\ ColumnValues(produtos_clean, "id_produto") = ColumnValues(produtos_df, "id_produto")
              /\ clientes_clean' = clientes_clean /\ produtos_clean' = produtos_clean
              \* the sales kept are the ones that name a returned customer and product
              /\ \A i \in 1..Len(vendas_clean') :
                     /\ vendas_clean'[i].id_cliente \in ColumnValues(clientes_clean, "id_cliente")
                     /\ vendas_clean'[i].id_produto \in ColumnValues(produtos_clean, "id_produto")
              /\ Len(vendas_clean') =
                     Cardinality({i \in 1..Len(vendas_df) :
                         /\ vendas_df[i].id_cliente \in ColumnValues(clientes_clean, "id_cliente")
                         /\ vendas_df[i].id_produto \in ColumnValues(produtos_clean, "id_produto")})
       /\ pc = "logistica" =>
              /\ vendas_clean' = vendas_clean
              /\ \A i \in 1..Len(logistica_clean') :
                     logistica_clean'[i].id_venda \in ColumnValues(vendas_clean, "id_venda")
              /\ Len(logistica_clean') =
                     CountIn(logistica_df, "id_venda", ColumnValues(vendas_clean, "id_venda"))]_vars

C17_Witness ==
    /\ pc = "done"
    /\ Len(clientes_clean) = 1
    /\ Len(produtos_clean) = 1
    /\ Len(vendas_df) = 2 /\ Len(vendas_clean) = 1
    /\ vendas_df[1].id_cliente # clientes_clean[1].id_cliente
    /\ Len(logistica_df) = 2 /\ Len(logistica_clean) = 1
    /\ logistica_clean[1].id_venda = vendas_clean[1].id_venda

\* The positions of df whose id_cliente is id
RowsOf(df, id) == {i \in 1..Len(df) : df[i].id_cliente = id}

\* Among the input rows of one identifier, the first in input order of those with the
\* most recent registration date (a date that does not parse is no date)
MostRecentFirst(df, id) ==
    CHOOSE i \in RowsOf(df, id) :
        /\ \A j \in RowsOf(df, id) :
               to_datetime(df[j].data_cadastro) <= to_datetime(df[i].data_cadastro)
        /\ \A j \in RowsOf(df, id) :
               to_datetime(df[j].data_cadastro) = to_datetime(df[i].data_cadastro) => i <= j

\* C20: when several input customer rows share an identifier, clean_clientes keeps
\* exactly one of them, a row with the most recent registration date among them, and
\* of the rows that tie on that date the one that comes first in input order.
C20_MostRecentThenFirst ==
    pc # "clientes" =>
        \A id \in ColumnValues(clientes_df, "id_cliente") :
            Cardinality(RowsOf(clientes_df, id)) > 1 =>
                /\ Cardinality(RowsOf(clientes_clean, id)) = 1
                /\ \A k \in RowsOf(clientes_clean, id) :
                       LET best == clientes_df[MostRecentFirst(clientes_df, id)]
                       IN  /\ clientes_clean[k].data_cadastro = to_datetime(best.data_cadastro)
                           /\ clientes_clean[k].nome = best.nome

\* An earlier run was given the tables this run was given
SameTables(run) == run.raw = <<clientes_df, produtos_df, vendas_df, logistica_df>>

\* A table without the column col
Without(df, col) == [i \in 1..Len(df) |-> [df[i] EXCEPT ![col] = NaT]]

\* C18 (as claimed): two runs of clean_all given the same four raw collections return
\* the same four cleaned collections and the same correction log, whatever was cleaned
\* before on the same or another DataCleaner.
C18_SameTablesSameResult ==
    pc = "done" =>
        \A k \in 1..Len(runs) :
            SameTables(runs[k]) =>
                /\ runs[k].clean = <<clientes_clean, produtos_clean, vendas_clean, logistica_clean>>
                /\ runs[k].log = corrections_log

\* C18 (amended): clean_all depends on its four inputs and on the clock only.  Two runs
\* given the same four raw collections return the same cleaned products and shipments
\* and the same correction log; the same cleaned customers when both run in the same
\* calendar year; the same cleaned sales when no sale is dated after the earlier run.
\* In every case the customers and the sales of the two runs differ at most in birth
\* dates and sale dates.
C18_SameTablesSameResultUpToClock ==
    pc = "done" =>
        \A k \in 1..Len(runs) :
            SameTables(runs[k]) =>
                /\ runs[k].log = corrections_log
                /\ runs[k].clean[2] = produtos_clean
                /\ runs[k].clean[4] = logistica_clean
                /\ YearOf(runs[k].clock) = YearOf(clock) => runs[k].clean[1] = clientes_clean
                /\ (\A i \in 1..Len(vendas_df) : vendas_df[i].data_venda <= runs[k].clock)
                       => runs[k].clean[3] = vendas_clean
                /\ Without(runs[k].clean[1], "data_nascimento")
                       = Without(clientes_clean, "data_nascimento")
                /\ Without(runs[k].clean[3], "data_venda") = Without(vendas_clean, "data_venda")

C18_Witness ==
    /\ pc = "done"
    /\ Len(runs) = 1
    /\ SameTables(runs[1])
    /\ runs[1].clock < clock
    /\ vendas_df[1].valor_total = 900
    /\ vendas_clean[1].valor_total = 1000
    /\ vendas_df[1].data_venda <= runs[1].clock
    /\ runs[1].clean[3] = vendas_clean

\* C19: no cleaning changes a caller-supplied table: each raw input, and each cleaned
\* table handed to a later cleaning as a reference, has the same rows and values after
\* the call as before.
C19_CallerTablesUnchanged ==
    [][/\ clientes_df' = clientes_df
       /\ produtos_df' = produtos_df
       /\ vendas_df' = vendas_df
       /\ logistica_df' = logistica_df
       /\ pc = "vendas" => clientes_clean' = clientes_clean /\ produtos_clean' = produtos_clean
       /\ pc = "logistica" => vendas_clean' = vendas_clean]_vars

C19_Witness ==
    /\ pc = "done"
    /\ Len(clientes_df) = 2
    /\ clientes_df[1].id_cliente = clientes_df[2].id_cliente
    /\ Len(clientes_clean) = 1
    /\ Len(vendas_df) = 1
    /\ vendas_clean = <<>>
    /\ Len(logistica_df) = 2
    /\ logistica_clean = <<>>

-----------------------------------------------------------------------------
(* Properties of the single cleanings *)

\* C21: customer cleaning is idempotent: clean_clientes applied to a table that
\* clean_clientes itself returned yields that same table and makes no further
\* correction (nothing more is logged).
C21_CleanClientesIdempotent ==
    (pc = "produtos" /\ runs # <<>>) =>
        /\ clientes_df = runs[Len(runs)].clean[1]
        /\ clientes_clean = clientes_df
        /\ corrections_log = runs[Len(runs)].log

C21_Witness ==
    /\ pc = "produtos"
    /\ Len(runs) = 1
    /\ Len(runs[1].raw[1]) = 2
    /\ runs[1].raw[1][1].id_cliente = runs[1].raw[1][2].id_cliente
    /\ runs[1].raw[1][2].nome = NaN
    /\ runs[1].raw[1][2].data_cadastro = 2
    /\ runs[1].raw[1][1].data_cadastro = 1
    /\ YearOf(runs[1].clock) < YearOf(clock)
    /\ Len(clientes_clean) = 1
    /\ clientes_clean[1].nome = "Cliente 1"
    /\ clientes_clean[1].email = "ana@x.com"
    /\ clientes_clean[1].telefone = "1199990000"
    /\ clientes_clean[1].data_nascimento = NaT
    /\ clientes_clean = runs[1].clean[1]

\* The records of the log for one field of one sale
LoggedFor(log, dataset, record_id, field) ==
    SelectSeq(log, LAMBDA c : c.dataset = dataset /\ c.record_id = record_id /\ c.field = field)

\* C22: every correction that changes a field value appends one CorrectionRecord
\* (dataset, record identifier, field, old value, new value, reason) to the cleaner's
\* log: once the sales are cleaned, each kept sale whose total was replaced has exactly
\* one record for field total, with the old and the new total, and a sale whose total
\* was kept has none.  A sale of 5 at 2.00 with total 9.00 comes back with total 10.00
\* and one record.  (Rows are matched by position, in runs that drop no sale.)
C22_EveryCorrectionLogged ==
    (pc \in {"logistica", "done"} /\ Len(vendas_clean) = Len(vendas_df)) =>
        \A i \in 1..Len(vendas_df) :
            LET logged == LoggedFor(corrections_log, "vendas", vendas_df[i].id_venda, "valor_total")
            IN  /\ vendas_clean[i].valor_total # vendas_df[i].valor_total =>
                       /\ Len(logged) = 1
                       /\ logged[1].old_value = str(vendas_df[i].valor_total)
                       /\ logged[1].new_value = str(vendas_clean[i].valor_total)
                /\ vendas_clean[i].valor_total = vendas_df[i].valor_total => logged = <<>>
                /\ (vendas_df[i].quantidade = 5 /\ vendas_df[i].valor_unitario = 200
                    /\ vendas_df[i].valor_total = 900) => vendas_clean[i].valor_total = 1000

\* clean_all was left by the exception of the cleaning given
FailedIn(cleaning) == {ErrorIn(exception, cleaning) : exception \in {"KeyError", "AttributeError"}}

\* clean_all was left by the exception of one of its cleanings
Failed(p) == p \in UNION {FailedIn(cleaning) :
                             cleaning \in {"clientes", "produtos", "vendas", "logistica"}}

\* C23: a failed customer or product cleaning leaves the run without any cleaned sale
\* row: the run goes no further after the failure, so it returns no sale that names
\* the failed entity, and sales are never cleaned with the referential check skipped;
\* whenever clean_vendas does run, it keeps exactly the sales that name a cleaned
\* customer and a cleaned product, hence none when either cleaned table is empty.
C23_FailedUpstreamNoSales ==
    [][/\ ~Failed(pc)
       /\ pc' \in FailedIn("clientes") \cup FailedIn("produtos") =>
              vendas_clean' = <<>> /\ logistica_clean' = <<>>
       /\ (pc = "vendas" /\ pc' = "logistica") =>
              /\ \A i \in 1..Len(vendas_clean') :
                     /\ vendas_clean'[i].id_cliente \in ColumnValues(clientes_clean, "id_cliente")
                     /\ vendas_clean'[i].id_produto \in ColumnValues(produtos_clean, "id_produto")
              /\ (clientes_clean = <<>> \/ produtos_clean = <<>>) => vendas_clean' = <<>>]_vars

C23_Witness ==
    /\ pc = ErrorIn("KeyError", "produtos")
    /\ Len(clientes_clean) = 1
    /\ Len(vendas_df) = 2
    /\ vendas_df[1].id_cliente = clientes_clean[1].id_cliente
    /\ vendas_clean = <<>>
    /\ logistica_clean = <<>>

\* C24: a structural failure, the identifier column absent from an input table, makes
\* the cleaning of that table fail with an error that clean_all propagates at once:
\* clean_all gets no further than that cleaning, cleans no table downstream of it and
\* returns no tables.
C24_StructuralFailurePropagates ==
    /\ "id_cliente" \notin Columns(clientes_df, ClientesColumns) =>
           pc \in {"clientes"} \cup FailedIn("clientes")
    /\ "id_produto" \notin Columns(produtos_df, ProdutosColumns) =>
           pc \in {"clientes", "produtos"} \cup FailedIn("clientes") \cup FailedIn("produtos")
    /\ "id_venda" \notin Columns(vendas_df, VendasColumns) =>
           pc \notin {"logistica", "done"} \cup FailedIn("logistica")
    /\ "id_entrega" \notin Columns(logistica_df, LogisticaColumns) => pc # "done"

\* C25: every row of the sales table clean_vendas returns whose status is not
\* Cancelled has a strictly positive quantity, whether the input quantity was negative,
\* zero or positive.
C25_NonCancelledQuantityPositive ==
    pc \in {"logistica", "done"} =>
        \A i \in 1..Len(vendas_clean) :
            vendas_clean[i].status # "Cancelada" => vendas_clean[i].quantidade > 0

\* C26: the quantity correction applies to non-cancelled sales only: every row of the
\* returned sales table whose status, title-cased and trimmed, is Cancelled has the
\* quantity it had in the input, whatever the case of its input status.  (Rows are
\* matched by position, in runs that drop no sale.)
C26_CancelledQuantityKept ==
    (pc \in {"logistica", "done"} /\ Len(vendas_clean) = Len(vendas_df)) =>
        \A i \in 1..Len(vendas_clean) :
            vendas_clean[i].status = "Cancelada" =>
                vendas_clean[i].quantidade = vendas_df[i].quantidade

\* C28: clean_logistica only flags a shipment whose actual-delivery date precedes its
\* ship date: the row is neither removed nor altered because of it, so the returned
\* shipments are exactly the input rows whose sale id is in the cleaned sales, in input
\* order.  (The input rows are in standard form: their texts and dates are the ones
\* steps 2 to 4 leave.)
C28_LogisticaOnlyFlags ==
    pc = "done" =>
        logistica_clean =
            SelectSeq(logistica_df,
                      LAMBDA r : \E v \in 1..Len(vendas_clean) :
                                     vendas_clean[v].id_venda = r.id_venda)

C28_Witness ==
    /\ pc = "done"
    /\ Len(vendas_clean) = 1
    /\ Len(logistica_df) = 2
    /\ logistica_df[1].id_venda = vendas_clean[1].id_venda
    /\ logistica_df[1].data_entrega_real = 2 /\ logistica_df[1].data_envio = 3
    /\ logistica_df[2].id_venda # vendas_clean[1].id_venda
    /\ logistica_clean = <<logistica_df[1]>>
    /\ InvalidDelivery(logistica_clean[1])

\* C29: in the product table clean_produtos returns every price and every stock is
\* non-negative: a negative input price p has become -p, a negative input stock 0, and
\* a non-negative price or stock is as it was.  (Rows are matched by position: no two
\* input rows are equal in every column.)
C29_PriceAndStockNonNegative ==
    (pc \notin {"clientes", "produtos"} /\ ~Failed(pc)) =>
        /\ Len(produtos_clean) = Len(produtos_df)
        /\ \A i \in 1..Len(produtos_clean) :
               LET in == produtos_df[i]
                   out == produtos_clean[i]
               IN  /\ out.preco >= 0
                   /\ out.estoque >= 0
                   /\ in.preco < 0 => out.preco = 0 - in.preco
                   /\ in.preco >= 0 => out.preco = in.preco
                   /\ in.estoque < 0 => out.estoque = 0
                   /\ in.estoque >= 0 => out.estoque = in.estoque

C29_Witness ==
    /\ pc = "vendas"
    /\ Len(produtos_df) = 2
    /\ produtos_df[1].preco = -500 /\ produtos_df[1].estoque = -3
    /\ produtos_df[2].preco = 0 /\ produtos_df[2].estoque = 3
    /\ produtos_clean[1].preco = 500 /\ produtos_clean[1].estoque = 0
    /\ produtos_clean[2].preco = 0 /\ produtos_clean[2].estoque = 3

=============================================================================
